---- MODULE Spec2Model ----
(***************************************************************************)
(* Model of the coredns-tailscale plugin (tailscale.go, setup.go).         *)
(*                                                                         *)
(* Strings are sequences of one-character strings, so that SplitN,        *)
(* ToLower, Fqdn and TrimPrefix are computed character by character.       *)
(* A uint32 is a pair of 16-bit halves [hi, lo] and a Unix time is a pair  *)
(* of limbs [hi, lo] in base 2^28, because the values exceed the range of  *)
(* the model checker's integers.                                           *)
(***************************************************************************)
EXTENDS Integers, Sequences, FiniteSets, TLC

(***************************************************************************)
(* Bounds of the model.                                                    *)
(***************************************************************************)
\* Number of Shutdown calls the caller makes (one after the other).
MaxShutdowns == 2
\* Number of ticker ticks delivered to the poll loop in one run.
MaxTicks == 2

(***************************************************************************)
(* strings, dns.Fqdn, dns.CanonicalName                                    *)
(***************************************************************************)
UpperChars == <<"A","B","C","D","E","F","G","H","I","J","K","L","M",
                "N","O","P","Q","R","S","T","U","V","W","X","Y","Z">>
LowerChars == <<"a","b","c","d","e","f","g","h","i","j","k","l","m",
                "n","o","p","q","r","s","t","u","v","w","x","y","z">>

\* The lower-case letter of every upper-case letter.
LowerOf ==
    [c \in {UpperChars[i] : i \in 1..26} |->
        LowerChars[CHOOSE i \in 1..26 : UpperChars[i] = c]]

ToLowerChar(c) == IF c \in DOMAIN LowerOf THEN LowerOf[c] ELSE c

RECURSIVE ToLower(_)
ToLower(s) ==
    IF s = <<>> THEN <<>> ELSE <<ToLowerChar(Head(s))>> \o ToLower(Tail(s))

\* dns.IsFqdn without escapes: the name ends in a dot.
IsFqdn(s) == Len(s) > 0 /\ s[Len(s)] = "."

\* dns.Fqdn
Fqdn(s) == IF IsFqdn(s) THEN s ELSE s \o <<".">>

\* CanonicalName that leaves the case of the letters as it is.
CanonicalName_KeepsCase(s) == Fqdn(s)

\* dns.CanonicalName
CanonicalName(s) == ToLower(Fqdn(s))

\* Position of the first "." of s, 0 when there is none.
IndexDot(s) ==
    IF \E i \in 1..Len(s) : s[i] = "."
    THEN CHOOSE i \in 1..Len(s) : s[i] = "." /\ \A j \in 1..(i-1) : s[j] # "."
    ELSE 0

\* strings.SplitN(s, ".", 2)
SplitN2(s) ==
    IF IndexDot(s) = 0 THEN <<s>>
    ELSE <<SubSeq(s, 1, IndexDot(s) - 1), SubSeq(s, IndexDot(s) + 1, Len(s))>>

TagPrefix == <<"t","a","g",":">>

\* TrimPrefix that trims nothing.
TrimTagPrefix_Keep(tag) == tag

\* strings.TrimPrefix(tag, "tag:")
TrimTagPrefix(tag) ==
    IF Len(tag) >= 4 /\ SubSeq(tag, 1, 4) = TagPrefix
    THEN SubSeq(tag, 5, Len(tag)) ELSE tag

\* fmt.Sprintf("%s.%s", a, b)
JoinDot(a, b) == a \o <<".">> \o b

peerDNSHostname(pdns) ==
    IF Len(SplitN2(pdns)) # 2 THEN <<>> ELSE SplitN2(pdns)[1]

zoneFromQN(qn) ==
    IF Len(SplitN2(qn)) # 2 THEN <<>> ELSE CanonicalName(SplitN2(qn)[2])

(***************************************************************************)
(* uint32 arithmetic on 16-bit halves, FNV-1 and serial                    *)
(***************************************************************************)
U32(h, l) == [hi |-> h, lo |-> l]
U32Zero == U32(0, 0)
U32Positive(u) == u.hi > 0 \/ u.lo > 0

\* u / 2 and u * 2 in uint32 arithmetic: the division truncates, the
\* product wraps around at 2^32.
U32Half(u) == U32(u.hi \div 2, (u.hi % 2) * 32768 + (u.lo \div 2))
U32Double(u) == U32((2 * u.hi + ((2 * u.lo) \div 65536)) % 65536, (2 * u.lo) % 65536)

RECURSIVE Xor(_, _)
Xor(a, b) ==
    IF a = 0 THEN b
    ELSE IF b = 0 THEN a
    ELSE 2 * Xor(a \div 2, b \div 2) + (((a % 2) + (b % 2)) % 2)

\* 32-bit FNV-1 offset basis 2166136261 = 0x811C9DC5
FnvOffset32 == U32(33052, 40389)

\* u * 16777619 mod 2^32, where 16777619 = 2^24 + 403
FnvMulPrime(u) ==
    U32(((u.lo % 256) * 256 + u.hi * 403 + ((u.lo * 403) \div 65536)) % 65536,
        (u.lo * 403) % 65536)

\* one step of hash/fnv sum32.Write: multiply, then xor the byte in
FnvStep(u, b) ==
    [hi |-> FnvMulPrime(u).hi,
     lo |-> (FnvMulPrime(u).lo \div 256) * 256 + Xor(FnvMulPrime(u).lo % 256, b)]

RECURSIVE FnvWrite(_, _)
FnvWrite(u, d) ==
    IF d = <<>> THEN u ELSE FnvWrite(FnvStep(u, Head(d)), Tail(d))

\* A Unix time t >= 0 is [hi, lo] with t = hi * 2^28 + lo.
Unix(h, l) == [hi |-> h, lo |-> l]

\* The 7-bit groups, least significant first, of ux = 2*t (the zig-zag
\* encoding of a non-negative int64), as many as eight bytes of varint hold.
ZigZagGroups(t) ==
    LET ulo == (2 * t.lo) % 268435456
        uhi == 2 * t.hi + ((2 * t.lo) \div 268435456)
    IN  << ulo % 128, (ulo \div 128) % 128, (ulo \div 16384) % 128,
           (ulo \div 2097152) % 128,
           uhi % 128, (uhi \div 128) % 128, (uhi \div 16384) % 128,
           (uhi \div 2097152) % 128 >>

\* binary.PutVarint into a zeroed 8-byte buffer: each group but the last
\* non-zero one carries the continuation bit, the remaining bytes stay 0.
PutVarint(t) ==
    LET g == ZigZagGroups(t)
        last == IF \E i \in 1..8 : g[i] # 0
                THEN CHOOSE i \in 1..8 : g[i] # 0 /\ \A j \in (i+1)..8 : g[j] = 0
                ELSE 1
    IN  [i \in 1..8 |-> IF i < last THEN g[i] + 128
                        ELSE IF i = last THEN g[i] ELSE 0]

serial(when) ==
    FnvWrite(FnvOffset32, PutVarint(when))

(***************************************************************************)
(* Config, buildFastZoneLookup                                             *)
(***************************************************************************)
\* A time.Duration of magnitude below 2^32 seconds: the whole seconds of
\* the magnitude, as 16-bit halves like a uint32, the remaining
\* nanoseconds, and the sign.
Duration(s, n) == [neg |-> FALSE, sec |-> s, ns |-> n]
DurationZero == Duration(U32Zero, 0)

\* -d
DurationNeg(d) == IF d = DurationZero THEN d ELSE [d EXCEPT !.neg = ~@]

\* d > 0
DurationPositive(d) == ~d.neg /\ d # DurationZero

\* time.Minute * 5
defaultReloadInterval == Duration(U32(0, 300), 0)

\* uint32(d.Seconds()) of a d that is not negative: the float is truncated
\* towards zero, which drops the nanoseconds.
Seconds32(d) == U32(d.sec.hi, d.sec.lo)

\* A Go map[string]string is a function on its key set; a missing key
\* reads as "".
MapGet(m, k) == IF k \in DOMAIN m THEN m[k] ELSE <<>>

MapValues(m) == {m[k] : k \in DOMAIN m}

\* A Go map as a function with one key set or overwritten.
MapSet(m, k, v) == [x \in (DOMAIN m) \cup {k} |-> IF x = k THEN v ELSE m[x]]

EmptyMap == [x \in {} |-> <<>>]

\* buildFastZoneLookup that leaves out the zones of the tags.
buildFastZoneLookup_DefaultOnly(config) ==
    [config EXCEPT !.fastZoneLookup = {config.DefaultZone}]

buildFastZoneLookup(config) ==
    [config EXCEPT !.fastZoneLookup = {config.DefaultZone} \cup MapValues(config.Zones)]

\* The Config parse leaves behind for a default zone, the tag options and
\* the reload option of a block: the default interval when none was given,
\* then the zone set.
parseResult(dz, zones, reload) ==
    buildFastZoneLookup(
        [DefaultZone    |-> dz,
         Zones          |-> zones,
         ReloadInterval |-> IF reload = DurationZero
                            THEN defaultReloadInterval ELSE reload,
         fastZoneLookup |-> {}])

(***************************************************************************)
(* parse and parseBlock on the tokens of the Corefile, read through the    *)
(* Dispenser of caddy.Controller; time.ParseDuration                       *)
(***************************************************************************)
\* A token of the Corefile: its text and the line it stands on.
Token(text, line) == [Text |-> text, Line |-> line]

\* The Dispenser over the tokens of one directive: the cursor is the
\* position of the current token, 0 before the first; nesting counts the
\* open blocks.
NewDispenser(tokens) == [tokens |-> tokens, cursor |-> 0, nesting |-> 0]

\* c.Val(): the text of the current token, "" when there is none.
DispenserVal(d) ==
    IF d.cursor < 1 \/ d.cursor > Len(d.tokens) THEN <<>>
    ELSE d.tokens[d.cursor].Text

\* c.Next(): moves to the next token if there is one; the cursor stays on
\* the last token when there is none.
DispenserNext(d) ==
    IF d.cursor < Len(d.tokens)
    THEN [ok |-> TRUE, d |-> [d EXCEPT !.cursor = @ + 1]]
    ELSE [ok |-> FALSE, d |-> d]

\* c.NextArg(): moves to the next token if it stands on the same line.
DispenserNextArg(d) ==
    IF d.cursor < 1
    THEN [ok |-> TRUE, d |-> [d EXCEPT !.cursor = @ + 1]]
    ELSE IF d.cursor > Len(d.tokens)
         THEN [ok |-> FALSE, d |-> d]
         ELSE IF /\ d.cursor < Len(d.tokens)
                 /\ d.tokens[d.cursor].Line = d.tokens[d.cursor + 1].Line
              THEN [ok |-> TRUE, d |-> [d EXCEPT !.cursor = @ + 1]]
              ELSE [ok |-> FALSE, d |-> d]

\* c.NextBlock(): enters a block that opens on the same line and moves to
\* its first token, or moves to the next token of the open block; false at
\* the closing brace and when no block opens.
DispenserNextBlock(d) ==
    IF d.nesting > 0
    THEN LET n == DispenserNext(d).d
         IN  IF DispenserVal(n) = <<"}">>
             THEN [ok |-> FALSE, d |-> [n EXCEPT !.nesting = @ - 1]]
             ELSE [ok |-> TRUE, d |-> n]
    ELSE LET a == DispenserNextArg(d)
         IN  IF ~a.ok THEN [ok |-> FALSE, d |-> a.d]
             ELSE IF DispenserVal(a.d) # <<"{">>
                  THEN [ok |-> FALSE, d |-> [a.d EXCEPT !.cursor = @ - 1]]
                  ELSE LET n == DispenserNext(a.d).d
                       IN  IF DispenserVal(n) = <<"}">>
                           THEN [ok |-> FALSE, d |-> n]
                           ELSE [ok |-> TRUE, d |-> [n EXCEPT !.nesting = @ + 1]]

Digits == <<"0","1","2","3","4","5","6","7","8","9">>
IsDigit(c) == \E i \in 1..10 : Digits[i] = c
DigitVal(c) == (CHOOSE i \in 1..10 : Digits[i] = c) - 1

\* The number of leading digits of s.
RECURSIVE LeadingDigits(_)
LeadingDigits(s) ==
    IF s = <<>> \/ ~IsDigit(Head(s)) THEN 0 ELSE 1 + LeadingDigits(Tail(s))

\* The value of a string of digits.
RECURSIVE DecVal(_)
DecVal(s) ==
    IF s = <<>> THEN 0 ELSE 10 * DecVal(SubSeq(s, 1, Len(s) - 1)) + DigitVal(s[Len(s)])

\* The seconds of the units s, m and h; 0 for any other unit.
UnitSeconds(u) ==
    IF u = <<"s">> THEN 1 ELSE IF u = <<"m">> THEN 60 ELSE IF u = <<"h">> THEN 3600 ELSE 0

\* A duration of ds tenths of a second.
Tenths(ds) ==
    Duration(U32((ds \div 10) \div 65536, (ds \div 10) % 65536), (ds % 10) * 100000000)

\* time.ParseDuration on strings of an optional sign, one number and one
\* unit: "0", or digits, at most one decimal, and the unit s, m or h.
\* Everything else the model hands it is an error (no digits, no unit, an
\* unknown unit).
ParseDuration(str) ==
    LET sign == str # <<>> /\ Head(str) \in {"-", "+"}
        s    == IF sign THEN Tail(str) ELSE str
        n    == LeadingDigits(s)
        rest == SubSeq(s, n + 1, Len(s))
        frac == Len(rest) >= 2 /\ rest[1] = "." /\ IsDigit(rest[2])
        unit == IF frac THEN SubSeq(rest, 3, Len(rest)) ELSE rest
        ds   == (10 * DecVal(SubSeq(s, 1, n)) + (IF frac THEN DigitVal(rest[2]) ELSE 0))
                    * UnitSeconds(unit)
    IN  IF s = <<"0">> THEN [ok |-> TRUE, d |-> DurationZero]
        ELSE IF n = 0 \/ UnitSeconds(unit) = 0 THEN [ok |-> FALSE, d |-> DurationZero]
        ELSE [ok |-> TRUE,
              d  |-> IF sign /\ Head(str) = "-" THEN DurationNeg(Tenths(ds)) ELSE Tenths(ds)]

KwTailscale == <<"t","a","i","l","s","c","a","l","e">>
KwReload == <<"r","e","l","o","a","d">>
KwTag == <<"t","a","g">>

\* What parse and parseBlock return: the error ("" for nil), with the
\* Dispenser and the Config as they leave them.
Parsed(err, d, config) == [err |-> err, d |-> d, config |-> config]

parseBlock(d, config) ==
    LET tok == DispenserVal(d)
        a1  == DispenserNextArg(d)
        a2  == DispenserNextArg(a1.d)
    IN  IF tok = KwReload
        THEN IF ~a1.ok THEN Parsed("wrong argument count", a1.d, config)
             ELSE IF config.ReloadInterval # DurationZero
                  THEN Parsed("reload already specified", a1.d, config)
                  ELSE IF ~ParseDuration(DispenserVal(a1.d)).ok
                       THEN Parsed("invalid reload interval", a1.d, config)
                       ELSE Parsed("", a1.d,
                                   [config EXCEPT !.ReloadInterval =
                                        ParseDuration(DispenserVal(a1.d)).d])
        ELSE IF tok = KwTag
        THEN IF ~a1.ok THEN Parsed("wrong argument count", a1.d, config)
             ELSE IF ~a2.ok THEN Parsed("wrong argument count", a2.d, config)
                  ELSE IF DispenserVal(a1.d) \in DOMAIN config.Zones
                       THEN Parsed("tag already configured", a2.d, config)
                       ELSE Parsed("", a2.d,
                                   [config EXCEPT !.Zones =
                                        MapSet(@, DispenserVal(a1.d), DispenserVal(a2.d))])
        ELSE Parsed("unknown option", d, config)

\* The loop of parse over the block: for c.NextBlock() { parseBlock }.
RECURSIVE parseBlocks(_, _)
parseBlocks(d, config) ==
    LET nb == DispenserNextBlock(d)
    IN  IF ~nb.ok THEN Parsed("", nb.d, config)
        ELSE LET pb == parseBlock(nb.d, config)
             IN  IF pb.err # "" THEN pb ELSE parseBlocks(pb.d, pb.config)

\* parse(c, config) with c the Dispenser over the tokens.
parse(tokens, config) ==
    LET n1 == DispenserNext(NewDispenser(tokens))
        n2 == DispenserNext(n1.d)
        c1 == [config EXCEPT !.DefaultZone = DispenserVal(n2.d)]
        pb == parseBlocks(n2.d, c1)
        c2 == IF pb.config.ReloadInterval = DurationZero
              THEN [pb.config EXCEPT !.ReloadInterval = defaultReloadInterval]
              ELSE pb.config
    IN  IF ~n1.ok THEN Parsed("wrong argument count", n1.d, config)
        ELSE IF DispenserVal(n1.d) # KwTailscale
             THEN Parsed("unexpected option", n1.d, config)
             ELSE IF DispenserVal(n2.d) = <<"{">>
                  THEN Parsed("default zone is required", n2.d, config)
                  ELSE IF pb.err # "" THEN pb
                       ELSE Parsed("", pb.d, buildFastZoneLookup(c2))

(***************************************************************************)
(* record, records, bucketAddrs, assemblePeer, assemble                    *)
(***************************************************************************)
\* netip.Addr: the family and an identity.
Addr(f, i) == [fam |-> f, id |-> i]
IsValid(a) == a.fam # "invalid"
Is4(a) == a.fam = "v4"
Is6(a) == a.fam = "v6"

\* The v4 result built from the last address to the first.
RECURSIVE bucketV4_Reversed(_)
bucketV4_Reversed(addrs) ==
    IF addrs = <<>> THEN <<>>
    ELSE IF IsValid(Head(addrs)) /\ Is4(Head(addrs))
         THEN bucketV4_Reversed(Tail(addrs)) \o <<Head(addrs)>>
         ELSE bucketV4_Reversed(Tail(addrs))

RECURSIVE bucketV4(_)
bucketV4(addrs) ==
    IF addrs = <<>> THEN <<>>
    ELSE IF IsValid(Head(addrs)) /\ Is4(Head(addrs))
         THEN <<Head(addrs)>> \o bucketV4(Tail(addrs))
         ELSE bucketV4(Tail(addrs))

RECURSIVE bucketV6(_)
bucketV6(addrs) ==
    IF addrs = <<>> THEN <<>>
    ELSE IF IsValid(Head(addrs)) /\ ~Is4(Head(addrs)) /\ Is6(Head(addrs))
         THEN <<Head(addrs)>> \o bucketV6(Tail(addrs))
         ELSE bucketV6(Tail(addrs))

bucketAddrs(addrs) == [v4 |-> bucketV4(addrs), v6 |-> bucketV6(addrs)]

\* *record; a nil pointer has isNil set.
record(n, a4, a6) == [isNil |-> FALSE, name |-> n, v4 |-> a4, v6 |-> a6]
NilRecord == [isNil |-> TRUE, name |-> <<>>, v4 |-> <<>>, v6 |-> <<>>]

\* records: a nil map has isNil set; reading a nil map finds nothing.
records(m) == [isNil |-> FALSE, m |-> m]
NilRecords == [isNil |-> TRUE, m |-> EmptyMap]

\* *ipnstate.PeerStatus; Tags is a *views.Slice[string], nil or a slice.
PeerStatus(dnsName, ips, tags) ==
    [isNil |-> FALSE, DNSName |-> dnsName, TailscaleIPs |-> ips,
     TagsNil |-> FALSE, Tags |-> tags]
PeerStatusNoTags(dnsName, ips) ==
    [isNil |-> FALSE, DNSName |-> dnsName, TailscaleIPs |-> ips,
     TagsNil |-> TRUE, Tags |-> <<>>]
NilPeer ==
    [isNil |-> TRUE, DNSName |-> <<>>, TailscaleIPs |-> <<>>,
     TagsNil |-> TRUE, Tags |-> <<>>]

\* The tag loop that stores under every tag-zone name a record of its own,
\* with the name of the peer and no addresses.
RECURSIVE assembleTags_OwnRecord(_, _, _, _, _)
assembleTags_OwnRecord(config, tags, phn, host, r) ==
    IF tags = <<>> THEN r
    ELSE LET zone == MapGet(config.Zones, TrimTagPrefix(Head(tags)))
         IN  assembleTags_OwnRecord(config, Tail(tags), phn, host,
                 IF zone # <<>>
                 THEN MapSet(r, CanonicalName(JoinDot(phn, zone)),
                             [isNil |-> FALSE, name |-> host.name, v4 |-> <<>>, v6 |-> <<>>])
                 ELSE r)

\* The tag loop of assemblePeer: r with phn.zone set to host for every tag
\* of the slice, in order, that the config maps to a zone.
RECURSIVE assembleTags(_, _, _, _, _)
assembleTags(config, tags, phn, host, r) ==
    IF tags = <<>> THEN r
    ELSE LET zone == MapGet(config.Zones, TrimTagPrefix(Head(tags)))
         IN  assembleTags(config, Tail(tags), phn, host,
                 IF zone # <<>>
                 THEN MapSet(r, CanonicalName(JoinDot(phn, zone)), host)
                 ELSE r)

\* assemblePeer that builds the default-zone entry from the whole name of
\* the peer and not from its host name.
assemblePeer_FullNameKey(config, peer, r) ==
    IF peer.isNil \/ peer.DNSName = <<>>
    THEN [host |-> NilRecord, r |-> r]
    ELSE LET tsdns == CanonicalName(peer.DNSName)
             phn   == peerDNSHostname(tsdns)
             b     == bucketAddrs(peer.TailscaleIPs)
             host  == record(tsdns, b.v4, b.v6)
             r1    == MapSet(r, CanonicalName(JoinDot(tsdns, config.DefaultZone)), host)
         IN  IF phn = <<>>
             THEN [host |-> NilRecord, r |-> r]
             ELSE IF peer.TagsNil
                  THEN [host |-> host, r |-> r1]
                  ELSE [host |-> host,
                        r |-> assembleTags(config, peer.Tags, phn, host, r1)]

\* assemblePeer returns the record (nil when the peer is skipped) and
\* leaves its entries in the map r: both are in the result.
assemblePeer(config, peer, r) ==
    IF peer.isNil \/ peer.DNSName = <<>>
    THEN [host |-> NilRecord, r |-> r]
    ELSE LET tsdns == CanonicalName(peer.DNSName)
             phn   == peerDNSHostname(tsdns)
             b     == bucketAddrs(peer.TailscaleIPs)
             host  == record(tsdns, b.v4, b.v6)
             r1    == MapSet(r, CanonicalName(JoinDot(phn, config.DefaultZone)), host)
         IN  IF phn = <<>>
             THEN [host |-> NilRecord, r |-> r]
             ELSE IF peer.TagsNil
                  THEN [host |-> host, r |-> r1]
                  ELSE [host |-> host,
                        r |-> assembleTags(config, peer.Tags, phn, host, r1)]

\* The loop over the peers run from the last peer to the first.
RECURSIVE assemblePeers_Reversed(_, _, _)
assemblePeers_Reversed(config, peers, r) ==
    IF peers = <<>> THEN r
    ELSE assemblePeer(config, Head(peers), assemblePeers_Reversed(config, Tail(peers), r)).r

RECURSIVE assemblePeers(_, _, _)
assemblePeers(config, peers, r) ==
    IF peers = <<>> THEN r
    ELSE assemblePeers(config, Tail(peers), assemblePeer(config, Head(peers), r).r)

\* The ns.<zone> entries: every zone of fastZoneLookup is set to sr, so the
\* order of the iteration does not show.
assembleNS(config, sr, r) ==
    [x \in (DOMAIN r) \cup {CanonicalName(JoinDot(<<"n","s">>, z)) : z \in config.fastZoneLookup}
        |-> IF \E z \in config.fastZoneLookup : x = CanonicalName(JoinDot(<<"n","s">>, z))
            THEN sr ELSE r[x]]

assemble(config, self, peers) ==
    IF config.DefaultZone = <<>>
    THEN NilRecords
    ELSE LET r  == assemblePeers(config, peers, EmptyMap)
             sp == assemblePeer(config, self, r)
         IN  IF sp.host.isNil
             THEN records(sp.r)
             ELSE records(assembleNS(config, sp.host, sp.r))

\* The ns loop that stops after the first zone the range visits.
assembleNSRange_FirstOnly(zones, sr, r) ==
    IF zones = <<>> THEN r
    ELSE MapSet(r, CanonicalName(JoinDot(<<"n","s">>, Head(zones))), sr)

\* The ns loop with the zones in the order in which the range over the
\* map fastZoneLookup visits them.
RECURSIVE assembleNSRange(_, _, _)
assembleNSRange(zones, sr, r) ==
    IF zones = <<>> THEN r
    ELSE assembleNSRange(Tail(zones), sr,
             MapSet(r, CanonicalName(JoinDot(<<"n","s">>, Head(zones))), sr))

\* assemble with that order given.
assembleRange(config, self, peers, zones) ==
    IF config.DefaultZone = <<>>
    THEN NilRecords
    ELSE LET r  == assemblePeers(config, peers, EmptyMap)
             sp == assemblePeer(config, self, r)
         IN  IF sp.host.isNil
             THEN records(sp.r)
             ELSE records(assembleNSRange(zones, sp.host, sp.r))

(***************************************************************************)
(* DNS messages: answer, A, AAAA, authority and the serve* functions       *)
(***************************************************************************)
RcodeSuccess == 0
RcodeNameError == 3

\* dns.RR_Header with the record data beside it.
RR(name, rrtype, ttl, rdata) ==
    [Name |-> name, Rrtype |-> rrtype, Class |-> "IN", Ttl |-> ttl, Rdata |-> rdata]

\* answer that leaves the recursion-available flag set.
answer_RecursionAvailable(req) ==
    [Question |-> req, Response |-> TRUE, Rcode |-> RcodeSuccess,
     Authoritative |-> TRUE, RecursionAvailable |-> TRUE, Compress |-> TRUE,
     Answer |-> <<>>, Ns |-> <<>>]

\* answer(req): the reply with its flags and empty sections; Rcode is the
\* zero value.
answer(req) ==
    [Question |-> req, Response |-> TRUE, Rcode |-> RcodeSuccess,
     Authoritative |-> TRUE, RecursionAvailable |-> FALSE, Compress |-> TRUE,
     Answer |-> <<>>, Ns |-> <<>>]

\* What ServeDNS returns and what it did: wrote the message msg to the
\* response writer, or handed the request to the Next handler.
Wrote(msg, rcode) == [next |-> FALSE, rcode |-> rcode, msg |-> msg]
NextOrFailure(req) == [next |-> TRUE, rcode |-> RcodeSuccess, msg |-> answer(req)]

\* A with the TTL of the default reload interval.
A_DefaultTtl(config, hr) ==
    [i \in 1..Len(hr.v4) |->
        RR(hr.name, "A", Seconds32(defaultReloadInterval), [A |-> hr.v4[i]])]

A(config, hr) ==
    [i \in 1..Len(hr.v4) |->
        RR(hr.name, "A", Seconds32(config.ReloadInterval), [A |-> hr.v4[i]])]

\* AAAA that walks the v6 addresses from the last to the first.
AAAA_Reversed(config, hr) ==
    [i \in 1..Len(hr.v6) |->
        RR(hr.name, "AAAA", Seconds32(config.ReloadInterval),
           [AAAA |-> hr.v6[Len(hr.v6) + 1 - i]])]

AAAA(config, hr) ==
    [i \in 1..Len(hr.v6) |->
        RR(hr.name, "AAAA", Seconds32(config.ReloadInterval), [AAAA |-> hr.v6[i]])]

authority(config, zone, sn) ==
    LET ri == Seconds32(config.ReloadInterval)
    IN  RR(zone, "SOA", ri,
           [Ns      |-> <<"n","s",".">> \o zone,
            Mbox    |-> <<"r","o","o","t",".","n","s",".">> \o zone,
            Serial  |-> sn,
            Refresh |-> ri,
            Retry   |-> U32Half(ri),
            Expire  |-> U32Double(ri),
            Minttl  |-> U32Half(ri)])

\* serveCNAME that appends the AAAA records before the A records.
serveCNAME_AAAAFirst(config, req, qn, hr) ==
    Wrote([answer(req) EXCEPT
              !.Answer = <<RR(qn, "CNAME", Seconds32(config.ReloadInterval),
                              [Target |-> hr.name])>>
                         \o AAAA(config, hr) \o A(config, hr)],
          RcodeSuccess)

serveCNAME(config, req, qn, hr) ==
    Wrote([answer(req) EXCEPT
              !.Answer = <<RR(qn, "CNAME", Seconds32(config.ReloadInterval),
                              [Target |-> hr.name])>>
                         \o A(config, hr) \o AAAA(config, hr)],
          RcodeSuccess)

\* serveNoData that strips the leftmost label of a zone apex too.
serveNoData_AlwaysStrips(config, req, qn, zone, sn) ==
    Wrote([answer(req) EXCEPT !.Ns = <<authority(config, zoneFromQN(qn), sn)>>],
          RcodeSuccess)

\* serveNoData that never strips the leftmost label.
serveNoData_NeverStrips(config, req, qn, zone, sn) ==
    Wrote([answer(req) EXCEPT !.Ns = <<authority(config, qn, sn)>>],
          RcodeSuccess)

serveNoData(config, req, qn, zone, sn) ==
    Wrote([answer(req) EXCEPT
              !.Ns = <<authority(config, IF zone THEN qn ELSE zoneFromQN(qn), sn)>>],
          RcodeSuccess)

\* serveNXDOMAIN that never strips the leftmost label.
serveNXDOMAIN_KeepsName(config, req, qn, zone, sn) ==
    Wrote([answer(req) EXCEPT
              !.Ns = <<authority(config, qn, sn)>>,
              !.Rcode = RcodeNameError],
          RcodeNameError)

serveNXDOMAIN(config, req, qn, zone, sn) ==
    Wrote([answer(req) EXCEPT
              !.Ns = <<authority(config, IF zone THEN qn ELSE zoneFromQN(qn), sn)>>,
              !.Rcode = RcodeNameError],
          RcodeNameError)

serveSOA(config, req, qn, sn) ==
    Wrote([answer(req) EXCEPT !.Answer = <<authority(config, qn, sn)>>],
          RcodeSuccess)

\* serveNS that names the apex itself as the name server.
serveNS_TargetApex(config, req, qn) ==
    Wrote([answer(req) EXCEPT
              !.Answer = <<RR(qn, "NS", Seconds32(config.ReloadInterval),
                              [Ns |-> qn])>>],
          RcodeSuccess)

serveNS(config, req, qn) ==
    Wrote([answer(req) EXCEPT
              !.Answer = <<RR(qn, "NS", Seconds32(config.ReloadInterval),
                              [Ns |-> <<"n","s",".">> \o qn])>>],
          RcodeSuccess)

(***************************************************************************)
(* The inputs of the model: configurations, peer statuses, wall-clock      *)
(* times and queries.                                                      *)
(***************************************************************************)
ZoneC  == <<"c",".">>
ZoneDC == <<"d",".","c",".">>

\* tailscale c. { reload 91.5s; tag q d.c. }
ConfigFull == parseResult(ZoneC, (<<"q">> :> ZoneDC), Duration(U32(0, 91), 500000000))

\* tailscale c.
ConfigPlain == parseResult(ZoneC, EmptyMap, DurationZero)

\* A Tailscale value built without parse and with no default zone, as in
\* the zero case of TestAssemble; its reload interval is still zero.
ConfigNoZone ==
    buildFastZoneLookup(
        [DefaultZone |-> <<>>, Zones |-> (<<"q">> :> ZoneDC),
         ReloadInterval |-> DurationZero, fastZoneLookup |-> {}])

Configs == {ConfigFull, ConfigPlain, ConfigNoZone}

\* s.t, f.t with the tags tag:q and x, D.t. with the tag q: in the default
\* zone c. the last has the name d.c., which is also the zone of tag q.
PeerSelf == PeerStatusNoTags(<<"s",".","t">>, <<Addr("v4", 1), Addr("v6", 2)>>)
PeerF ==
    PeerStatus(<<"f",".","t">>, <<Addr("v4", 3), Addr("invalid", 0), Addr("v6", 4)>>,
               <<TagPrefix \o <<"q">>, <<"x">> >>)
PeerD ==
    PeerStatus(<<"D",".","t",".">>, <<Addr("v6", 5), Addr("v4", 6), Addr("v4", 7)>>,
               <<<<"q">> >>)

\* ipnstate.Status: Self and the Peer map, of which only the values are used.
Status(self, peers) == [Self |-> self, Peer |-> peers]

\* The self-peer with one peer and with two, and a status without a
\* self-peer and without peers, from which the assembled index is empty.
Statuses ==
    {Status(PeerSelf, {PeerF}), Status(PeerSelf, {PeerF, PeerD}), Status(NilPeer, {})}

\* The orders in which ranging over the map status.Peer can fill the slice.
PeerSlices(status) ==
    {p \in [1..Cardinality(status.Peer) -> status.Peer] :
        \A i, j \in 1..Cardinality(status.Peer) : i # j => p[i] # p[j]}

\* Wall-clock times in the order the clock passes them: 1700000000,
\* 1700000300 and 4825953233.
Times == <<Unix(6, 89387264), Unix(6, 89387564), Unix(17, 262550481)>>

\* c., d.c., f.c., f.d.c., d.d.c. and z.b.c.
QNames ==
    { ZoneC, ZoneDC,
      <<"f",".","c",".">>, <<"f",".","d",".","c",".">>,
      <<"d",".","d",".","c",".">>, <<"z",".","b",".","c",".">> }
QTypes == {"A", "AAAA", "CNAME", "ANY", "NS", "SOA", "MX"}
QClasses == {"IN", "ANY", "CH"}

\* The question of a request.
Question(qn, qt, qc) == [Name |-> qn, Qtype |-> qt, Qclass |-> qc]
Requests == {Question(qn, qt, qc) : qn \in QNames, qt \in QTypes, qc \in QClasses}
NoRequest == Question(<<>>, "", "")

(***************************************************************************)
(* State                                                                   *)
(***************************************************************************)
VARIABLES
    config,      \* ts.Config
    ts_hosts,    \* ts.hosts
    ts_serial,   \* ts.serial
    ts_done,     \* ts.done: "nil" or "open"
    mu,          \* the RWMutex: "" or the holder of the write lock
    clock,       \* index in Times of the wall-clock time
    ticks,       \* ticks the ticker has delivered so far
    tickC,       \* the ticker's channel t.C holds a tick
    st_pc,       \* Startup: "idle", "reload", "publish", "done", "panic"
    st_rl,       \* locals of the reload called by Startup
    poll_pc,     \* poll: "none", "select", "reload", "publish", "stopped"
    poll_rl,     \* locals of the reload called by poll
    sd_pc,       \* Shutdown: "idle", "send", "returned"
    sd_n,        \* Shutdown calls begun
    q_pc,        \* ServeDNS: "idle", "lookup", "done" (returned)
    q_req,       \* the question of the current or last ServeDNS call
    q_lk,        \* what lookup returned to that call
    q_resp,      \* what that call did
    lastStored,  \* history: the (hosts, serial) pair reload stored last
    everStored,  \* history: a reload has stored a non-nil index
    fn_pc,       \* a direct call of a function: "off", "call", "returned",
                 \* "again"
    fn_in,       \* the function called and its arguments
    fn_out,      \* what it returned
    fn_prev      \* the order of the range over the zones in that call, and
                 \* what the call before it returned when it is a second
                 \* call with the same arguments

vars == <<config, ts_hosts, ts_serial, ts_done, mu, clock, ticks, tickC,
          st_pc, st_rl, poll_pc, poll_rl, sd_pc, sd_n,
          q_pc, q_req, q_lk, q_resp, lastStored, everStored,
          fn_pc, fn_in, fn_out, fn_prev>>

storeVars == <<ts_hosts, ts_serial, lastStored, everStored>>
queryVars == <<q_pc, q_req, q_lk, q_resp>>
clockVars == <<clock, ticks, tickC>>
fnVars == <<fn_pc, fn_in, fn_out, fn_prev>>

\* The locals sn and hosts of reload.
ReloadLocals(sn, hosts) == [sn |-> sn, hosts |-> hosts]
NoLocals == ReloadLocals(U32Zero, NilRecords)

NoLookup == [hr |-> NilRecord, serial |-> U32Zero]

Now == Times[clock]

\* No function is called directly.
NoCall == [op |-> "none"]

\* The Tailscale value setup leaves behind, but for its Config, and the
\* callers at rest.
Constructed ==
    /\ ts_hosts = NilRecords
    /\ ts_serial = U32Zero
    /\ ts_done = "nil"
    /\ mu = ""
    /\ ticks = 0
    /\ tickC = FALSE
    /\ st_pc = "idle"
    /\ st_rl = NoLocals
    /\ poll_pc = "none"
    /\ poll_rl = NoLocals
    /\ sd_pc = "idle"
    /\ sd_n = 0
    /\ q_pc = "idle"
    /\ q_req = NoRequest
    /\ q_lk = NoLookup
    /\ q_resp = NextOrFailure(NoRequest)
    /\ lastStored = [hosts |-> NilRecords, serial |-> U32Zero]
    /\ everStored = FALSE

Init ==
    /\ config \in Configs
    /\ clock \in 1..Len(Times)
    /\ Constructed
    /\ fn_pc = "off"
    /\ fn_in = NoCall
    /\ fn_out = NoCall
    /\ fn_prev = NoCall

(***************************************************************************)
(* Ready, lookup                                                           *)
(***************************************************************************)
\* Ready that takes a serial for a populated store.
Ready_SerialOnly(hosts, sn) == U32Positive(sn)

\* Ready on the store (hosts, sn): ts.hosts != nil && ts.serial > 0
Ready(hosts, sn) == ~hosts.isNil /\ U32Positive(sn)

\* lookup that returns no serial.
lookup_NoSerial(hosts, sn, qn) ==
    [hr     |-> IF ~hosts.isNil /\ qn \in DOMAIN hosts.m THEN hosts.m[qn] ELSE NilRecord,
     serial |-> U32Zero]

\* lookup on the store (hosts, sn): ts.hosts[qn], ts.serial
lookup(hosts, sn, qn) ==
    [hr     |-> IF ~hosts.isNil /\ qn \in DOMAIN hosts.m THEN hosts.m[qn] ELSE NilRecord,
     serial |-> sn]

(***************************************************************************)
(* reload                                                                  *)
(***************************************************************************)
\* The locals of reload after a successful fetch at time now: the serial
\* of the time and the records assembled from the status, the peers in the
\* order the map iteration gave them.
reloadAssemble(cfg, now, status, peers) ==
    ReloadLocals(serial(now), assemble(cfg, status.Self, peers))

\* reload that blanks the index when the fetch fails.
reloadFetchError_Blanks(hosts, sn) == [hosts |-> NilRecords, serial |-> sn]

\* The store after reload returned early on a fetch error: as it was.
reloadFetchError(hosts, sn) == [hosts |-> hosts, serial |-> sn]

\* The store after the locked assignments at the end of reload.
reloadStore(rl) == [hosts |-> rl.hosts, serial |-> rl.sn]

(***************************************************************************)
(* Startup: the channel, the default interval, one reload, go poll         *)
(***************************************************************************)
\* setup has handed the plugin to the server, which calls Startup and
\* ServeDNS: the value was built directly, or parse returned no error.
Registered ==
    fn_pc = "off" \/ (fn_pc = "returned" /\ fn_in.op = "parse" /\ fn_out.err = "")

\* The end of Startup after its reload: time.NewTicker panics when the
\* interval is not positive, and then no poll is started; otherwise poll
\* runs and Startup returns.
StartupEnd(interval) ==
    IF DurationPositive(interval)
    THEN [st_pc |-> "done", poll_pc |-> "select"]
    ELSE [st_pc |-> "panic", poll_pc |-> "none"]

Startup ==
    /\ Registered
    /\ st_pc = "idle"
    /\ ts_done' = "open"
    /\ config' = IF config.ReloadInterval = DurationZero
                 THEN [config EXCEPT !.ReloadInterval = defaultReloadInterval]
                 ELSE config
    /\ st_pc' = "reload"
    /\ UNCHANGED <<fnVars, storeVars, mu, clockVars, st_rl, poll_pc, poll_rl, sd_pc, sd_n, queryVars>>

\* reload in Startup, Status returns an error; Startup then starts poll
\* with a new ticker and returns.
StartupReloadError ==
    /\ st_pc = "reload"
    /\ ts_hosts' = reloadFetchError(ts_hosts, ts_serial).hosts
    /\ ts_serial' = reloadFetchError(ts_hosts, ts_serial).serial
    /\ st_pc' = StartupEnd(config.ReloadInterval).st_pc
    /\ poll_pc' = StartupEnd(config.ReloadInterval).poll_pc
    /\ UNCHANGED <<fnVars, config, ts_done, lastStored, everStored, mu, clockVars, st_rl, poll_rl, sd_pc, sd_n, queryVars>>

\* reload in Startup up to the Lock: serial, Status, assemble.
StartupReloadFetch ==
    /\ st_pc = "reload"
    /\ \E status \in Statuses : \E peers \in PeerSlices(status) :
          st_rl' = reloadAssemble(config, Now, status, peers)
    /\ st_pc' = "publish"
    /\ UNCHANGED <<fnVars, config, storeVars, ts_done, mu, clockVars, poll_pc, poll_rl, sd_pc, sd_n, queryVars>>

\* reload in Startup from Lock to Unlock; Startup then starts poll with a
\* new ticker and returns.
StartupReloadPublish ==
    /\ st_pc = "publish"
    /\ mu = ""
    /\ ts_hosts' = reloadStore(st_rl).hosts
    /\ ts_serial' = reloadStore(st_rl).serial
    /\ lastStored' = reloadStore(st_rl)
    /\ everStored' = (everStored \/ ~reloadStore(st_rl).hosts.isNil)
    /\ st_rl' = NoLocals
    /\ st_pc' = StartupEnd(config.ReloadInterval).st_pc
    /\ poll_pc' = StartupEnd(config.ReloadInterval).poll_pc
    /\ UNCHANGED <<fnVars, config, ts_done, mu, clockVars, poll_rl, sd_pc, sd_n, queryVars>>

(***************************************************************************)
(* The ticker and poll                                                     *)
(***************************************************************************)
\* The interval passes and the running ticker puts a tick in t.C, which
\* holds at most one.
Tick ==
    /\ poll_pc \in {"select", "reload", "publish"}
    /\ ticks < MaxTicks
    /\ clock < Len(Times)
    /\ clock' = clock + 1
    /\ ticks' = ticks + 1
    /\ tickC' = TRUE
    /\ UNCHANGED <<fnVars, config, storeVars, ts_done, mu, st_pc, st_rl, poll_pc, poll_rl, sd_pc, sd_n, queryVars>>

\* select: case <-t.C
PollTick ==
    /\ poll_pc = "select"
    /\ tickC
    /\ tickC' = FALSE
    /\ poll_pc' = "reload"
    /\ UNCHANGED <<fnVars, config, storeVars, ts_done, mu, clock, ticks, st_pc, st_rl, poll_rl, sd_pc, sd_n, queryVars>>

PollReloadError ==
    /\ poll_pc = "reload"
    /\ ts_hosts' = reloadFetchError(ts_hosts, ts_serial).hosts
    /\ ts_serial' = reloadFetchError(ts_hosts, ts_serial).serial
    /\ poll_pc' = "select"
    /\ UNCHANGED <<fnVars, config, ts_done, lastStored, everStored, mu, clockVars, st_pc, st_rl, poll_rl, sd_pc, sd_n, queryVars>>

\* reload in poll that takes the write lock before the fetch.
PollReloadFetch_Locked ==
    /\ poll_pc = "reload"
    /\ mu = ""
    /\ mu' = "poll"
    /\ \E status \in Statuses : \E peers \in PeerSlices(status) :
          poll_rl' = reloadAssemble(config, Now, status, peers)
    /\ poll_pc' = "publish"
    /\ UNCHANGED <<fnVars, config, storeVars, ts_done, clockVars, st_pc, st_rl, sd_pc, sd_n, queryVars>>

PollReloadFetch ==
    /\ poll_pc = "reload"
    /\ \E status \in Statuses : \E peers \in PeerSlices(status) :
          poll_rl' = reloadAssemble(config, Now, status, peers)
    /\ poll_pc' = "publish"
    /\ UNCHANGED <<fnVars, config, storeVars, ts_done, mu, clockVars, st_pc, st_rl, sd_pc, sd_n, queryVars>>

PollReloadPublish ==
    /\ poll_pc = "publish"
    /\ mu = ""
    /\ ts_hosts' = reloadStore(poll_rl).hosts
    /\ ts_serial' = reloadStore(poll_rl).serial
    /\ lastStored' = reloadStore(poll_rl)
    /\ everStored' = (everStored \/ ~reloadStore(poll_rl).hosts.isNil)
    /\ poll_rl' = NoLocals
    /\ poll_pc' = "select"
    /\ UNCHANGED <<fnVars, config, ts_done, mu, clockVars, st_pc, st_rl, sd_pc, sd_n, queryVars>>

(***************************************************************************)
(* Shutdown                                                                *)
(***************************************************************************)
\* Shutdown that leaves the index in place.
ShutdownStore_KeepsHosts(hosts, sn) == [hosts |-> hosts, serial |-> sn]

\* The store after the assignment in Shutdown.
ShutdownStore(hosts, sn) == [hosts |-> NilRecords, serial |-> sn]

\* Shutdown up to the send: Lock, ts.hosts = nil. The caller shuts down
\* after Startup has returned, one call after the other.
Shutdown ==
    /\ st_pc = "done"
    /\ sd_pc \in {"idle", "returned"}
    /\ sd_n < MaxShutdowns
    /\ mu = ""
    /\ mu' = "Shutdown"
    /\ ts_hosts' = ShutdownStore(ts_hosts, ts_serial).hosts
    /\ ts_serial' = ShutdownStore(ts_hosts, ts_serial).serial
    /\ sd_pc' = "send"
    /\ sd_n' = sd_n + 1
    /\ UNCHANGED <<fnVars, config, ts_done, lastStored, everStored, clockVars, st_pc, st_rl, poll_pc, poll_rl, queryVars>>

\* A send on ts.done that completes also when poll has returned, as on a
\* buffered channel.
PollDone_Buffered ==
    /\ sd_pc = "send"
    /\ poll_pc \in {"select", "stopped"}
    /\ ts_done = "open"
    /\ poll_pc' = "stopped"
    /\ sd_pc' = "returned"
    /\ mu' = ""
    /\ UNCHANGED <<fnVars, config, storeVars, ts_done, clockVars, st_pc, st_rl, poll_rl, sd_n, queryVars>>

\* The unbuffered send ts.done <- true meets poll's case <-ts.done: poll
\* stops the ticker and returns, Shutdown unlocks and returns.
PollDone ==
    /\ sd_pc = "send"
    /\ poll_pc = "select"
    /\ ts_done = "open"
    /\ poll_pc' = "stopped"
    /\ sd_pc' = "returned"
    /\ mu' = ""
    /\ UNCHANGED <<fnVars, config, storeVars, ts_done, clockVars, st_pc, st_rl, poll_rl, sd_n, queryVars>>

(***************************************************************************)
(* ServeDNS                                                                *)
(***************************************************************************)
\* ServeDNS that looks at the host record before it looks for a zone apex.
ServeDNSAnswer_HostFirst(cfg, req, lk) ==
    IF lk.hr.isNil /\ req.Name \notin cfg.fastZoneLookup
    THEN serveNXDOMAIN(cfg, req, req.Name, FALSE, lk.serial)
    ELSE IF ~lk.hr.isNil
         THEN IF req.Qtype \in {"A", "AAAA", "ANY", "CNAME"}
              THEN serveCNAME(cfg, req, req.Name, lk.hr)
              ELSE serveNoData(cfg, req, req.Name, FALSE, lk.serial)
         ELSE CASE req.Qtype = "NS"  -> serveNS(cfg, req, req.Name)
                [] req.Qtype = "SOA" -> serveSOA(cfg, req, req.Name, lk.serial)
                [] OTHER             -> serveNoData(cfg, req, req.Name, TRUE, lk.serial)

\* ServeDNS after the lookup returned lk.
ServeDNSAnswer(cfg, req, lk) ==
    IF req.Name \in cfg.fastZoneLookup
    THEN CASE req.Qtype = "NS"  -> serveNS(cfg, req, req.Name)
           [] req.Qtype = "SOA" -> serveSOA(cfg, req, req.Name, lk.serial)
           [] OTHER             -> serveNoData(cfg, req, req.Name, TRUE, lk.serial)
    ELSE IF lk.hr.isNil
         THEN serveNXDOMAIN(cfg, req, req.Name, FALSE, lk.serial)
         ELSE IF req.Qtype \in {"A", "AAAA", "ANY", "CNAME"}
              THEN serveCNAME(cfg, req, req.Name, lk.hr)
              ELSE serveNoData(cfg, req, req.Name, FALSE, lk.serial)

\* ServeDNS without the class check.
ServeDNSDeclines_AnyClass(cfg, hosts, sn, req) ==
    \/ ~Ready(hosts, sn)
    \/ ~(req.Name \in cfg.fastZoneLookup \/ zoneFromQN(req.Name) \in cfg.fastZoneLookup)

\* ServeDNS without the zone check.
ServeDNSDeclines_NoZoneCheck(cfg, hosts, sn, req) ==
    \/ ~Ready(hosts, sn)
    \/ req.Qclass \notin {"IN", "ANY"}

\* ServeDNS hands the request on before any lookup: not ready, a class
\* other than IN and ANY, or a name in no zone of this plugin.
ServeDNSDeclines(cfg, hosts, sn, req) ==
    \/ ~Ready(hosts, sn)
    \/ req.Qclass \notin {"IN", "ANY"}
    \/ ~(req.Name \in cfg.fastZoneLookup \/ zoneFromQN(req.Name) \in cfg.fastZoneLookup)

\* ServeDNS up to the lookup; Ready takes the read lock. The server is
\* gone once Startup has panicked.
ServeDNS ==
    /\ Registered
    /\ st_pc # "panic"
    /\ q_pc = "idle"
    /\ mu = ""
    /\ \E req \in Requests :
          /\ q_req' = req
          /\ q_resp' = NextOrFailure(req)
          /\ q_pc' = IF ServeDNSDeclines(config, ts_hosts, ts_serial, req)
                     THEN "done" ELSE "lookup"
    /\ q_lk' = NoLookup
    /\ UNCHANGED <<fnVars, config, storeVars, ts_done, mu, clockVars, st_pc, st_rl, poll_pc, poll_rl, sd_pc, sd_n>>

\* ServeDNS from the lookup, which takes the read lock, to the response.
ServeDNSLookup ==
    /\ st_pc # "panic"
    /\ q_pc = "lookup"
    /\ mu = ""
    /\ q_lk' = lookup(ts_hosts, ts_serial, q_req.Name)
    /\ q_resp' = ServeDNSAnswer(config, q_req, q_lk')
    /\ q_pc' = "done"
    /\ UNCHANGED <<fnVars, config, storeVars, ts_done, mu, clockVars, st_pc, st_rl, poll_pc, poll_rl, sd_pc, sd_n, q_req>>

\* The caller has the result of ServeDNS; the next request can come.
ServeDNSReturn ==
    /\ st_pc # "panic"
    /\ q_pc = "done"
    /\ q_pc' = "idle"
    /\ q_req' = NoRequest
    /\ q_lk' = NoLookup
    /\ q_resp' = NextOrFailure(NoRequest)
    /\ UNCHANGED <<fnVars, config, storeVars, ts_done, mu, clockVars, st_pc, st_rl, poll_pc, poll_rl, sd_pc, sd_n>>

Next ==
    \/ Startup
    \/ StartupReloadError
    \/ StartupReloadFetch
    \/ StartupReloadPublish
    \/ Tick
    \/ PollTick
    \/ PollReloadError
    \/ PollReloadFetch
    \/ PollReloadPublish
    \/ Shutdown
    \/ PollDone
    \/ ServeDNS
    \/ ServeDNSLookup
    \/ ServeDNSReturn

Spec == Init /\ [][Next]_vars

(***************************************************************************)
(* assemble and authority applied directly to their arguments, assemble as  *)
(* TestAssemble calls it, on inputs the served configurations do not reach *)
(***************************************************************************)
\* f.u., a peer of another tailnet with the label of PeerF; ns.t., a peer
\* with the label of the name-server entries; x, a name without a dot; a
\* peer with addresses and no name; s.u., a peer with the label of the
\* self-peer.
PeerF2 == PeerStatus(<<"f",".","u",".">>, <<Addr("v4", 8)>>, << <<"q">> >>)
PeerNs == PeerStatusNoTags(<<"n","s",".","t",".">>, <<Addr("v4", 9)>>)
PeerNoDot == PeerStatusNoTags(<<"x">>, <<Addr("v4", 10)>>)
PeerNoName == PeerStatusNoTags(<<>>, <<Addr("v4", 11), Addr("v6", 12)>>)
PeerS2 == PeerStatusNoTags(<<"s",".","u",".">>, <<Addr("v6", 13)>>)

PeerPool == {PeerF, PeerD, PeerF2, PeerNs, PeerNoDot, PeerNoName, PeerS2, NilPeer}

\* The peer slices: up to two different peers of the pool, in any order,
\* and one slice of four in which every kind of tie occurs.
PeerSeqs ==
    {<<>>} \cup {<<p>> : p \in PeerPool}
           \cup {x \in PeerPool \X PeerPool : x[1] # x[2]}
           \cup {<<PeerF, PeerNs, PeerS2, PeerF2>>}

\* tailscale C { tag q D.c }: zones as typed, neither lower-case nor
\* dot-terminated.
ConfigRaw == parseResult(<<"C">>, (<<"q">> :> <<"D",".","c">>), DurationZero)

\* tailscale c. { tag q c. }: the zone of the tag is the default zone.
ConfigSameZone == parseResult(ZoneC, (<<"q">> :> ZoneC), DurationZero)

AssembleConfigs == {ConfigFull, ConfigPlain, ConfigNoZone, ConfigRaw, ConfigSameZone}

AssembleCalls ==
    {[op |-> "assemble", config |-> c, self |-> sf, peers |-> ps] :
        c \in AssembleConfigs, sf \in {PeerSelf, PeerNs, NilPeer}, ps \in PeerSeqs}

\* reload 500ms, 91.5s, 300s and 600000h0m1.5s (2160000001.5 seconds), and
\* no reload option.
ReloadIntervals ==
    { DurationZero,
      Duration(U32Zero, 500000000),
      Duration(U32(0, 91), 500000000),
      Duration(U32(0, 300), 0),
      Duration(U32(32958, 64513), 500000000) }

AuthorityCalls ==
    {[op |-> "authority", config |-> parseResult(ZoneC, EmptyMap, d),
      zone |-> z, serial |-> sn] :
        d \in ReloadIntervals, z \in {ZoneC, ZoneDC},
        sn \in {U32Zero, serial(Times[1])}}

\* The option lines of a block: reload with 1s, 2s, 0s, 91.5s, with 1 (no
\* unit) and with no argument; refresh 300s, the option of the README; tag
\* q d.c., tag q c., tag p c. and tag q with no zone; foo bar.
KwRefresh == <<"r","e","f","r","e","s","h">>
OptionLines ==
    { <<KwReload, <<"1","s">> >>, <<KwReload, <<"2","s">> >>,
      <<KwReload, <<"0","s">> >>, <<KwReload, <<"9","1",".","5","s">> >>,
      <<KwReload, <<"1">> >>, <<KwReload>>,
      <<KwRefresh, <<"3","0","0","s">> >>,
      <<KwTag, <<"q">>, ZoneDC>>, <<KwTag, <<"q">>, ZoneC>>,
      <<KwTag, <<"p">>, ZoneC>>, <<KwTag, <<"q">> >>,
      << <<"f","o","o">>, <<"b","a","r">> >> }

\* The blocks: up to two option lines in any order, and the full examples
\* of the README and of TestParseConfig with three.
Blocks ==
    {<<>>} \cup {<<l>> : l \in OptionLines} \cup (OptionLines \X OptionLines)
           \cup { << <<KwRefresh, <<"3","0","0","s">> >>, <<KwTag, <<"q">>, ZoneDC>>,
                     <<KwTag, <<"p">>, ZoneC>> >>,
                  << <<KwReload, <<"9","1",".","5","s">> >>, <<KwTag, <<"q">>, ZoneDC>>,
                     <<KwTag, <<"p">>, ZoneC>> >> }

\* The tokens of a line, and of the lines of a block from line k on.
LineTokens(texts, line) == [i \in 1..Len(texts) |-> Token(texts[i], line)]

RECURSIVE BlockTokens(_, _)
BlockTokens(lines, k) ==
    IF lines = <<>> THEN <<>>
    ELSE LineTokens(Head(lines), k) \o BlockTokens(Tail(lines), k + 1)

\* The tokens of a directive: the head on the first line, and the block,
\* if it has one, opened on that line, one option to a line, closed on a
\* line of its own.
Corefile(head, hasBlock, lines) ==
    LineTokens(head, 1)
    \o (IF hasBlock
        THEN <<Token(<<"{">>, 1)>> \o BlockTokens(lines, 2)
             \o <<Token(<<"}">>, Len(lines) + 2)>>
        ELSE <<>>)

\* The Config of the Tailscale value setup builds, before parse.
ZeroConfig ==
    [DefaultZone |-> <<>>, Zones |-> EmptyMap,
     ReloadInterval |-> DurationZero, fastZoneLookup |-> {}]

\* The inputs of parse: the empty input, another plugin's directive, and
\* tailscale with and without the default zone c., with and without a block.
ParseCalls ==
    {[op |-> "parse", config |-> ZeroConfig, head |-> h, hasBlock |-> FALSE, lines |-> <<>>] :
        h \in {<<>>, <<KwTailscale>>, <<KwTailscale, ZoneC>>,
               << <<"f","o","r","w","a","r","d">>, ZoneC>>}}
    \cup {[op |-> "parse", config |-> ZeroConfig, head |-> h, hasBlock |-> TRUE, lines |-> b] :
             h \in {<<KwTailscale>>, <<KwTailscale, ZoneC>>}, b \in Blocks}

\* w.t., a peer with two v6 addresses around a v4 address, and b.t., a
\* peer without addresses.
PeerW ==
    PeerStatusNoTags(<<"w",".","t",".">>, <<Addr("v6", 14), Addr("v4", 15), Addr("v6", 16)>>)
PeerB == PeerStatusNoTags(<<"b",".","t",".">>, <<>>)

\* The inputs of serveCNAME: a query of one of the four host types for a
\* name of the index, and the record the lookup found under it.
ServeCNAMECalls ==
    {[op |-> "serveCNAME", config |-> c, req |-> Question(qn, qt, "IN"),
      hr |-> assemblePeer(c, p, EmptyMap).host] :
        c \in {ConfigFull, ConfigPlain},
        qn \in {<<"f",".","c",".">>, <<"w",".","t",".">>},
        qt \in {"A", "AAAA", "CNAME", "ANY"},
        p \in {PeerF, PeerD, PeerW, PeerB, PeerS2}}

\* The inputs of bucketAddrs: up to three addresses out of two v4, two v6
\* and the zero Addr, with repetition, and one slice of six.
AddrSeqs ==
    LET pool == {Addr("v4", 1), Addr("v4", 2), Addr("v6", 3), Addr("v6", 4),
                 Addr("invalid", 0)}
    IN  {<<>>} \cup {<<a>> : a \in pool} \cup (pool \X pool) \cup (pool \X pool \X pool)
        \cup {<<Addr("v6", 4), Addr("v4", 2), Addr("invalid", 0),
                Addr("v4", 1), Addr("v6", 4), Addr("v4", 2)>>}

BucketAddrsCalls ==
    {[op |-> "bucketAddrs", config |-> ZeroConfig, addrs |-> a] : a \in AddrSeqs}

\* The inputs of reload run by itself: a config, the time of the call, and
\* the status the fetch returns with its peers in the order the range over
\* the map gave them; the self-peer is s.t, nil, without a name, or x.
ReloadPeerSeqs ==
    {<<>>, <<PeerF>>, <<PeerF, PeerD>>, <<PeerNs, PeerF>>, <<PeerNoName, PeerD>>}

ReloadCalls ==
    {[op |-> "reload", config |-> c, clock |-> k,
      status |-> Status(sf, {ps[i] : i \in 1..Len(ps)}), peers |-> ps] :
        c \in {ConfigFull, ConfigPlain, ConfigNoZone}, k \in 1..Len(Times),
        sf \in {PeerSelf, NilPeer, PeerNoName, PeerNoDot}, ps \in ReloadPeerSeqs}

InitFn ==
    /\ fn_in \in AssembleCalls \cup AuthorityCalls \cup ParseCalls \cup ReloadCalls
                 \cup ServeCNAMECalls \cup BucketAddrsCalls
    /\ fn_pc = "call"
    /\ fn_out = NoCall
    /\ fn_prev = NoCall
    /\ config = fn_in.config
    /\ clock = IF fn_in.op = "reload" THEN fn_in.clock ELSE 1
    /\ Constructed

\* The orders in which ranging over the map fastZoneLookup can visit the
\* zones.
ZoneOrders(cfg) ==
    {z \in [1..Cardinality(cfg.fastZoneLookup) -> cfg.fastZoneLookup] :
        \A i, j \in 1..Cardinality(cfg.fastZoneLookup) : i # j => z[i] # z[j]}

CallAssemble ==
    /\ fn_pc = "call"
    /\ fn_in.op = "assemble"
    /\ \E zones \in ZoneOrders(config) :
          /\ fn_out' = assembleRange(config, fn_in.self, fn_in.peers, zones)
          /\ fn_prev' = [op |-> "first", zones |-> zones]
    /\ fn_pc' = "returned"
    /\ UNCHANGED <<config, storeVars, ts_done, mu, clockVars, st_pc, st_rl,
                   poll_pc, poll_rl, sd_pc, sd_n, queryVars, fn_in>>

\* A second call of assemble with the arguments of the first.
CallAssembleAgain ==
    /\ fn_pc = "returned"
    /\ fn_in.op = "assemble"
    /\ \E zones \in ZoneOrders(config) :
          /\ fn_out' = assembleRange(config, fn_in.self, fn_in.peers, zones)
          /\ fn_prev' = [op |-> "second", zones |-> zones,
                         first |-> fn_out, firstZones |-> fn_prev.zones]
    /\ fn_pc' = "again"
    /\ UNCHANGED <<config, storeVars, ts_done, mu, clockVars, st_pc, st_rl,
                   poll_pc, poll_rl, sd_pc, sd_n, queryVars, fn_in>>

CallAuthority ==
    /\ fn_pc = "call"
    /\ fn_in.op = "authority"
    /\ fn_out' = authority(config, fn_in.zone, fn_in.serial)
    /\ fn_pc' = "returned"
    /\ UNCHANGED <<config, storeVars, ts_done, mu, clockVars, st_pc, st_rl,
                   poll_pc, poll_rl, sd_pc, sd_n, queryVars, fn_in, fn_prev>>

\* setup's parse(c, &ts.Config): the Config is filled in place.
CallParse ==
    /\ fn_pc = "call"
    /\ fn_in.op = "parse"
    /\ fn_out' = [err |-> parse(Corefile(fn_in.head, fn_in.hasBlock, fn_in.lines), config).err]
    /\ config' = parse(Corefile(fn_in.head, fn_in.hasBlock, fn_in.lines), config).config
    /\ fn_pc' = "returned"
    /\ UNCHANGED <<storeVars, ts_done, mu, clockVars, st_pc, st_rl,
                   poll_pc, poll_rl, sd_pc, sd_n, queryVars, fn_in, fn_prev>>

\* One reload from its first line to its return, the fetch without error,
\* and nothing else running.
CallReload ==
    /\ fn_pc = "call"
    /\ fn_in.op = "reload"
    /\ LET rl == reloadAssemble(config, Now, fn_in.status, fn_in.peers)
       IN  /\ ts_hosts' = reloadStore(rl).hosts
           /\ ts_serial' = reloadStore(rl).serial
           /\ lastStored' = reloadStore(rl)
           /\ everStored' = (everStored \/ ~reloadStore(rl).hosts.isNil)
           /\ fn_out' = [sn |-> rl.sn]
    /\ fn_pc' = "returned"
    /\ UNCHANGED <<config, ts_done, mu, clockVars, st_pc, st_rl,
                   poll_pc, poll_rl, sd_pc, sd_n, queryVars, fn_in, fn_prev>>

CallServeCNAME ==
    /\ fn_pc = "call"
    /\ fn_in.op = "serveCNAME"
    /\ fn_out' = serveCNAME(config, fn_in.req, fn_in.req.Name, fn_in.hr)
    /\ fn_pc' = "returned"
    /\ UNCHANGED <<config, storeVars, ts_done, mu, clockVars, st_pc, st_rl,
                   poll_pc, poll_rl, sd_pc, sd_n, queryVars, fn_in, fn_prev>>

CallBucketAddrs ==
    /\ fn_pc = "call"
    /\ fn_in.op = "bucketAddrs"
    /\ fn_out' = bucketAddrs(fn_in.addrs)
    /\ fn_pc' = "returned"
    /\ UNCHANGED <<config, storeVars, ts_done, mu, clockVars, st_pc, st_rl,
                   poll_pc, poll_rl, sd_pc, sd_n, queryVars, fn_in, fn_prev>>

NextFn ==
    \/ CallAssemble
    \/ CallAssembleAgain
    \/ CallAuthority
    \/ CallParse
    \/ CallReload
    \/ CallServeCNAME
    \/ CallBucketAddrs

SpecFn == InitFn /\ [][NextFn]_vars

(***************************************************************************)
(* setup: parse fills the Config of a new Tailscale value, and when parse  *)
(* returns no error the server runs the plugin with that Config            *)
(***************************************************************************)
\* The blocks of the directives setup is given: reload 91.5s and a tag;
\* reload 0s; reload -5s; foo bar, which parse rejects.
SetupBlocks ==
    { << <<KwReload, <<"9","1",".","5","s">> >>, <<KwTag, <<"q">>, ZoneDC>> >>,
      << <<KwReload, <<"0","s">> >> >>,
      << <<KwReload, <<"-","5","s">> >> >>,
      << << <<"f","o","o">>, <<"b","a","r">> >> >> }

\* tailscale c. with these blocks, and without a block.
SetupCalls ==
    {[op |-> "parse", config |-> ZeroConfig, head |-> <<KwTailscale, ZoneC>>,
      hasBlock |-> TRUE, lines |-> b] : b \in SetupBlocks}
    \cup {[op |-> "parse", config |-> ZeroConfig, head |-> <<KwTailscale, ZoneC>>,
           hasBlock |-> FALSE, lines |-> <<>>]}

InitSetup ==
    /\ fn_in \in SetupCalls
    /\ fn_pc = "call"
    /\ fn_out = NoCall
    /\ fn_prev = NoCall
    /\ config = fn_in.config
    /\ clock = 1
    /\ Constructed

NextSetup == CallParse \/ Next

SpecSetup == InitSetup /\ [][NextSetup]_vars

(***************************************************************************)
(* The plugin under fair scheduling: the goroutines of Startup and poll    *)
(* run on, a call of Status returns, and a running ticker delivers its     *)
(* ticks. Shutdown and ServeDNS are called or not as the server sees fit.  *)
(***************************************************************************)
Fairness ==
    /\ WF_vars(Startup)
    /\ WF_vars(StartupReloadError \/ StartupReloadFetch)
    /\ WF_vars(StartupReloadPublish)
    /\ WF_vars(Tick)
    /\ WF_vars(PollTick)
    /\ WF_vars(PollReloadError \/ PollReloadFetch)
    /\ WF_vars(PollReloadPublish)
    /\ WF_vars(PollDone)

SpecLive == Init /\ [][Next]_vars /\ Fairness

(***************************************************************************)
(* Properties                                                              *)
(***************************************************************************)
ReadyNow == Ready(ts_hosts, ts_serial)

\* A ServeDNS call returns in this step.
Returns == q_pc # "done" /\ q_pc' = "done"

\* The call that returns in this step found the engine ready at its
\* readiness check: in this step, or earlier when this step is its lookup.
PassedReady == q_pc = "lookup" \/ ReadyNow

SupportedClass(req) == req.Qclass \in {"IN", "ANY"}

IsApex(qn) == qn \in config.fastZoneLookup

\* qn is a key of the stored index.
Present(qn) == ~ts_hosts.isNil /\ qn \in DOMAIN ts_hosts.m

\* qn with its leftmost label stripped.
StripLabel(qn) == SubSeq(qn, IndexDot(qn) + 1, Len(qn))

\* The resource records of type SOA of both sections of a message.
SOAs(msg) ==
    {msg.Answer[i] : i \in {j \in 1..Len(msg.Answer) : msg.Answer[j].Rrtype = "SOA"}}
    \cup {msg.Ns[i] : i \in {j \in 1..Len(msg.Ns) : msg.Ns[j].Rrtype = "SOA"}}

\* The first Shutdown call has returned.
ShutdownReturned == sd_pc = "returned" \/ sd_n > 1

\* C1: Ready() is false before the first Startup; it is true once Startup
\* has returned after a successful fetch with a non-empty default zone
\* (and nothing has reloaded or shut down since); it is false after
\* Shutdown has returned.
C1_ReadinessLifecycle ==
    /\ st_pc = "idle" => ~ReadyNow
    /\ (st_pc = "done" /\ everStored /\ config.DefaultZone # <<>>
            /\ ticks = 0 /\ sd_n = 0) => ReadyNow
    /\ sd_pc = "returned" => ~ReadyNow

\* C2: as long as no reload has stored a non-nil index, no ServeDNS call
\* goes on to the lookup, and every call that has returned handed the
\* request to the Next handler and wrote no response.
C2_DeclinesBeforeFirstIndex ==
    ~everStored =>
        /\ q_pc # "lookup"
        /\ q_pc = "done" => q_resp.next

\* A call for a name in a zone of the plugin, class IN, has returned after
\* Startup returned, and no index was ever stored.
C2_Witness ==
    /\ ~everStored
    /\ st_pc = "done"
    /\ q_pc = "done"
    /\ q_req.Qclass = "IN"
    /\ zoneFromQN(q_req.Name) \in config.fastZoneLookup
    /\ q_resp.next

\* A step of the poll goroutine, the receive that lets Shutdown return
\* among them.
PollStep ==
    PollTick \/ PollReloadError \/ PollReloadFetch \/ PollReloadPublish \/ PollDone

\* C3: the single Shutdown call made after Startup does not block for
\* ever: while it is waiting to hand the stop signal to poll, poll can
\* take a step, whatever poll was doing when Shutdown took the lock.
C3_ShutdownNotBlocked ==
    (sd_pc = "send" /\ sd_n = 1) => ENABLED PollStep

\* C4: whenever the lock is free, so that a reader can see the store, the
\* stored (hosts, serial) pair is a pair that one reload wrote together (or
\* the pair of the empty store before any reload): no operation has
\* changed one of the two without the other.
C4_StoredPairFromOneReload ==
    mu = "" => [hosts |-> ts_hosts, serial |-> ts_serial] = lastStored

\* A reload returns in this step because Status returned an error.
ReloadFailed ==
    \/ st_pc = "reload" /\ st_pc' = "done"
    \/ poll_pc = "reload" /\ poll_pc' = "select"

\* C5: a reload whose fetch fails leaves the stored index and serial as
\* they were: every name looks up to the same record and serial as before
\* and Ready() keeps its value.
C5_FetchErrorKeepsStore ==
    [][ReloadFailed =>
          /\ ts_hosts' = ts_hosts
          /\ ts_serial' = ts_serial
          /\ Ready(ts_hosts', ts_serial') <=> Ready(ts_hosts, ts_serial)
          /\ \A qn \in QNames :
                lookup(ts_hosts', ts_serial', qn) = lookup(ts_hosts, ts_serial, qn)]_vars

\* The reload of the first tick has returned without storing anything: the
\* store is ready and still carries the serial of the time before the tick.
C5_Witness ==
    /\ poll_pc = "select"
    /\ ticks = 1
    /\ ~tickC
    /\ ReadyNow
    /\ ts_serial = serial(Times[clock - 1])

\* C6: once the first Shutdown has returned, poll has left its loop, no
\* reload is under way, hosts is nil and Ready() is false, in every later
\* state.
C6_NothingAfterShutdown ==
    ShutdownReturned =>
        /\ poll_pc = "stopped"
        /\ st_pc = "done"
        /\ ts_hosts = NilRecords
        /\ ~ReadyNow

\* Shutdown has returned after an index was stored and a tick reloaded.
C6_Witness ==
    /\ sd_pc = "returned"
    /\ everStored
    /\ ticks >= 1
    /\ ~tickC

\* The response is NXDOMAIN with one authority SOA owned by zone.
IsNXDOMAIN(resp, zone) ==
    /\ ~resp.next
    /\ resp.rcode = RcodeNameError
    /\ resp.msg.Rcode = RcodeNameError
    /\ resp.msg.Answer = <<>>
    /\ Len(resp.msg.Ns) = 1
    /\ resp.msg.Ns[1].Rrtype = "SOA"
    /\ resp.msg.Ns[1].Name = zone

\* C7 as claimed: ready, class IN or ANY, a name that is no zone apex and
\* is absent from the index: NXDOMAIN with the SOA of the name less its
\* leftmost label, for every type.
C7_AnyAbsentNameIsNXDOMAIN ==
    [][(/\ Returns
        /\ PassedReady
        /\ SupportedClass(q_req')
        /\ ~IsApex(q_req'.Name)
        /\ ~Present(q_req'.Name))
       => IsNXDOMAIN(q_resp', StripLabel(q_req'.Name))]_vars

\* C7 amended: the same for the names one label below a zone of the plugin.
C7_AbsentNameInZoneIsNXDOMAIN ==
    [][(/\ Returns
        /\ PassedReady
        /\ SupportedClass(q_req')
        /\ ~IsApex(q_req'.Name)
        /\ StripLabel(q_req'.Name) \in config.fastZoneLookup
        /\ ~Present(q_req'.Name))
       => IsNXDOMAIN(q_resp', StripLabel(q_req'.Name))]_vars

\* An MX query of class ANY was answered NXDOMAIN.
C7_Witness ==
    /\ q_pc = "done"
    /\ q_req.Qtype = "MX"
    /\ q_req.Qclass = "ANY"
    /\ ~q_resp.next
    /\ q_resp.rcode = RcodeNameError
    /\ q_resp.msg.Ns[1].Name = StripLabel(q_req.Name)

\* The response is the host answer for qn and the record hr: the CNAME,
\* then one A per v4 address, then one AAAA per v6 address, no authority.
IsHostAnswer(resp, qn, hr) ==
    /\ ~resp.next
    /\ resp.rcode = RcodeSuccess
    /\ resp.msg.Rcode = RcodeSuccess
    /\ resp.msg.Ns = <<>>
    /\ Len(resp.msg.Answer) = 1 + Len(hr.v4) + Len(hr.v6)
    /\ resp.msg.Answer[1].Rrtype = "CNAME"
    /\ resp.msg.Answer[1].Name = qn
    /\ resp.msg.Answer[1].Rdata.Target = hr.name
    /\ \A i \in 1..Len(hr.v4) :
          /\ resp.msg.Answer[1 + i].Rrtype = "A"
          /\ resp.msg.Answer[1 + i].Rdata.A = hr.v4[i]
    /\ \A i \in 1..Len(hr.v6) :
          /\ resp.msg.Answer[1 + Len(hr.v4) + i].Rrtype = "AAAA"
          /\ resp.msg.Answer[1 + Len(hr.v4) + i].Rdata.AAAA = hr.v6[i]

\* C8: a call that passed the readiness and class checks, for a name that
\* is in the index and is no zone apex, with type A, AAAA, CNAME or ANY,
\* is answered with the CNAME to the peer's name, the peer's A records and
\* its AAAA records, in this order, rcode success, no authority: the same
\* answer for the four types.
C8_HostAnswer ==
    [][(/\ Returns
        /\ PassedReady
        /\ SupportedClass(q_req')
        /\ ~IsApex(q_req'.Name)
        /\ Present(q_req'.Name)
        /\ q_req'.Qtype \in {"A", "AAAA", "CNAME", "ANY"})
       => IsHostAnswer(q_resp', q_req'.Name, ts_hosts.m[q_req'.Name])]_vars

\* An AAAA query was answered with a CNAME, two A and one AAAA record.
C8_Witness ==
    /\ q_pc = "done"
    /\ q_req.Qtype = "AAAA"
    /\ ~q_resp.next
    /\ Len(q_resp.msg.Answer) = 4
    /\ q_resp.msg.Answer[1].Rrtype = "CNAME"
    /\ q_resp.msg.Answer[3].Rrtype = "A"
    /\ q_resp.msg.Answer[4].Rrtype = "AAAA"

\* C9: a call that passed the readiness and class checks, for a zone apex
\* with type NS, is answered with exactly one record, the NS of the apex
\* with target ns.<apex>, rcode success, no authority, whatever the index
\* holds.
C9_ApexNS ==
    [][(/\ Returns
        /\ PassedReady
        /\ SupportedClass(q_req')
        /\ IsApex(q_req'.Name)
        /\ q_req'.Qtype = "NS")
       => /\ ~q_resp'.next
          /\ q_resp'.rcode = RcodeSuccess
          /\ q_resp'.msg.Rcode = RcodeSuccess
          /\ q_resp'.msg.Ns = <<>>
          /\ Len(q_resp'.msg.Answer) = 1
          /\ q_resp'.msg.Answer[1].Rrtype = "NS"
          /\ q_resp'.msg.Answer[1].Name = q_req'.Name
          /\ q_resp'.msg.Answer[1].Rdata.Ns = <<"n","s",".">> \o q_req'.Name]_vars

\* The NS query for the apex d.c. was answered while the index holds a
\* peer entry under the very name d.c.
C9_Witness ==
    /\ q_pc = "done"
    /\ q_req.Qtype = "NS"
    /\ q_req.Name = ZoneDC
    /\ IsApex(ZoneDC)
    /\ Present(ZoneDC)
    /\ ~q_resp.next
    /\ q_resp.msg.Answer[1].Rrtype = "NS"

\* C10: every SOA record of a response carries the serial that the call's
\* one lookup returned, which is the stored serial at the moment of that
\* lookup; the SOA query for a zone apex is answered with exactly one
\* record, the SOA of the apex with that serial.
C10_SOASerialFromLookup ==
    [][Returns =>
          /\ q_pc = "lookup" => q_lk'.serial = ts_serial
          /\ \A rr \in SOAs(q_resp'.msg) : rr.Rdata.Serial = ts_serial
          /\ (/\ PassedReady
              /\ SupportedClass(q_req')
              /\ IsApex(q_req'.Name)
              /\ q_req'.Qtype = "SOA")
             => /\ ~q_resp'.next
                /\ Len(q_resp'.msg.Answer) = 1
                /\ q_resp'.msg.Answer[1].Rrtype = "SOA"
                /\ q_resp'.msg.Answer[1].Name = q_req'.Name
                /\ q_resp'.msg.Answer[1].Rdata.Serial = ts_serial]_vars

\* The SOA query for an apex was answered with the serial of the reload of
\* the first tick.
C10_Witness ==
    /\ q_pc = "done"
    /\ q_req.Qtype = "SOA"
    /\ IsApex(q_req.Name)
    /\ ~q_resp.next
    /\ ticks = 1
    /\ clock > 1
    /\ q_resp.msg.Answer[1].Rdata.Serial = serial(Times[clock])
    /\ q_lk.serial = serial(Times[clock])

\* The response is no-data: rcode success, no answer, one authority SOA
\* owned by owner.
IsNoData(resp, owner) ==
    /\ ~resp.next
    /\ resp.rcode = RcodeSuccess
    /\ resp.msg.Rcode = RcodeSuccess
    /\ resp.msg.Answer = <<>>
    /\ Len(resp.msg.Ns) = 1
    /\ resp.msg.Ns[1].Rrtype = "SOA"
    /\ resp.msg.Ns[1].Name = owner

\* C11: a call that passed the readiness and class checks, for a zone apex
\* with a type other than NS and SOA, is answered no-data: rcode success,
\* no answer, one authority SOA owned by the apex itself.
C11_ApexNoData ==
    [][(/\ Returns
        /\ PassedReady
        /\ SupportedClass(q_req')
        /\ IsApex(q_req'.Name)
        /\ q_req'.Qtype \notin {"NS", "SOA"})
       => IsNoData(q_resp', q_req'.Name)]_vars

\* The A query for the apex d.c. was answered no-data with the SOA of d.c.
\* while the index holds a peer entry under the name d.c.
C11_Witness ==
    /\ q_pc = "done"
    /\ q_req.Qtype = "A"
    /\ q_req.Name = ZoneDC
    /\ IsApex(ZoneDC)
    /\ Present(ZoneDC)
    /\ IsNoData(q_resp, ZoneDC)

\* C12 as claimed: a call that passed the readiness and class checks, for a
\* name that is in the index, with a type other than A, AAAA, CNAME and
\* ANY, is answered no-data with the SOA of the name less its leftmost
\* label.
C12_PresentNameOtherTypeNoData ==
    [][(/\ Returns
        /\ PassedReady
        /\ SupportedClass(q_req')
        /\ Present(q_req'.Name)
        /\ q_req'.Qtype \notin {"A", "AAAA", "CNAME", "ANY"})
       => IsNoData(q_resp', StripLabel(q_req'.Name))]_vars

\* C12 amended: the same for the names that are no zone apex.
C12_HostOtherTypeNoData ==
    [][(/\ Returns
        /\ PassedReady
        /\ SupportedClass(q_req')
        /\ ~IsApex(q_req'.Name)
        /\ Present(q_req'.Name)
        /\ q_req'.Qtype \notin {"A", "AAAA", "CNAME", "ANY"})
       => IsNoData(q_resp', StripLabel(q_req'.Name))]_vars

\* The NS query for f.d.c., a name of the index in the zone d.c., was
\* answered no-data with the SOA of d.c.
C12_Witness ==
    /\ q_pc = "done"
    /\ q_req.Qtype = "NS"
    /\ q_req.Name = <<"f",".","d",".","c",".">>
    /\ Present(q_req.Name)
    /\ IsNoData(q_resp, ZoneDC)

\* qn is one label below a zone of the plugin.
BelowZone(qn) == StripLabel(qn) \in config.fastZoneLookup

\* A result of ServeDNS without the question it echoes.
Unasked(resp) == [resp EXCEPT !.msg.Question = NoRequest]

\* C13: a call whose class is neither IN nor ANY returns from the checks
\* that precede the lookup, handing the request to the Next handler; a call
\* of class ANY is declined where the same call of class IN is declined and
\* is otherwise answered with the response of the same call of class IN.
C13_ClassHandling ==
    [][Returns =>
          /\ ~SupportedClass(q_req') => (q_resp'.next /\ q_pc = "idle")
          /\ (q_req'.Qclass = "ANY" /\ q_pc = "idle") =>
                /\ q_resp'.next
                /\ ~ReadyNow \/ ~(IsApex(q_req'.Name) \/ BelowZone(q_req'.Name))
          /\ (q_req'.Qclass = "ANY" /\ q_pc = "lookup") =>
                Unasked(q_resp') =
                    Unasked(ServeDNSAnswer(config, [q_req' EXCEPT !.Qclass = "IN"],
                                           lookup(ts_hosts, ts_serial, q_req'.Name)))]_vars

\* A call of class CH for a name of the index was handed to the Next
\* handler while the engine was ready.
C13_Witness ==
    /\ q_pc = "done"
    /\ q_req.Qclass = "CH"
    /\ ReadyNow
    /\ Present(q_req.Name)
    /\ ~IsApex(q_req.Name)
    /\ q_resp.next

\* C14: a call for a name that is neither a zone apex nor one label below
\* a zone returns before any lookup and hands the request to the Next
\* handler: it writes no NXDOMAIN, no no-data and no records.
C14_OutOfZoneForwarded ==
    [][(/\ Returns
        /\ ~IsApex(q_req'.Name)
        /\ ~BelowZone(q_req'.Name))
       => /\ q_pc = "idle"
          /\ q_lk' = NoLookup
          /\ q_resp'.next]_vars

\* A call of class IN for z.b.c. was handed to the Next handler while the
\* engine was ready.
C14_Witness ==
    /\ q_pc = "done"
    /\ q_req.Qclass = "IN"
    /\ q_req.Name = <<"z",".","b",".","c",".">>
    /\ ReadyNow
    /\ q_lk = NoLookup
    /\ q_resp.next

\* C15: every response the plugin has written is authoritative, has
\* recursion-available cleared and compression enabled.
C15_ResponseFlags ==
    (q_pc = "done" /\ ~q_resp.next) =>
        /\ q_resp.msg.Authoritative
        /\ ~q_resp.msg.RecursionAvailable
        /\ q_resp.msg.Compress

\* An SOA answer of a class ANY query was written with the three flags.
C15_Witness ==
    /\ q_pc = "done"
    /\ q_req.Qclass = "ANY"
    /\ ~q_resp.next
    /\ Len(q_resp.msg.Answer) = 1
    /\ q_resp.msg.Answer[1].Rrtype = "SOA"
    /\ q_resp.msg.Authoritative
    /\ ~q_resp.msg.RecursionAvailable
    /\ q_resp.msg.Compress

\* The resource records of both sections of a message.
Records(msg) ==
    {msg.Answer[i] : i \in 1..Len(msg.Answer)} \cup {msg.Ns[i] : i \in 1..Len(msg.Ns)}

\* The whole seconds of a duration below 2^32 seconds, as a uint32.
WholeSeconds(d) == d.sec

\* C16: every record of every response the plugin has written (CNAME, A,
\* AAAA, NS, SOA) has the TTL of the whole seconds of the reload interval,
\* for reload intervals below 2^32 seconds.
C16_TtlIsReloadInterval ==
    (q_pc = "done" /\ ~q_resp.next) =>
        \A rr \in Records(q_resp.msg) : rr.Ttl = WholeSeconds(config.ReloadInterval)

\* With reload 91.5s a host answer was written: a CNAME, two A and one
\* AAAA record with the TTL 91.
C16_Witness ==
    /\ q_pc = "done"
    /\ ~q_resp.next
    /\ config.ReloadInterval = Duration(U32(0, 91), 500000000)
    /\ Len(q_resp.msg.Answer) = 4
    /\ \A i \in 1..4 : q_resp.msg.Answer[i].Ttl = U32(0, 91)
    /\ {q_resp.msg.Answer[i].Rrtype : i \in 1..4} = {"CNAME", "A", "AAAA"}

\* e is exactly twice r, as numbers.
ExactlyTwice(e, r) == U32Half(e) = r /\ e.lo % 2 = 0

\* C17: the SOA that authority builds for a zone, with r the whole seconds
\* of the reload interval, has the primary name server ns.<zone>, refresh
\* r, retry r/2, minimum TTL r/2 and expire 2*r in uint32 arithmetic, and
\* its expire is exactly twice its refresh.
C17_SOAFields ==
    (fn_pc = "returned" /\ fn_in.op = "authority") =>
        /\ fn_out.Rdata.Ns = <<"n","s",".">> \o fn_in.zone
        /\ fn_out.Rdata.Refresh = WholeSeconds(config.ReloadInterval)
        /\ fn_out.Rdata.Retry = U32Half(WholeSeconds(config.ReloadInterval))
        /\ fn_out.Rdata.Minttl = U32Half(WholeSeconds(config.ReloadInterval))
        /\ fn_out.Rdata.Expire = U32Double(WholeSeconds(config.ReloadInterval))
        /\ ExactlyTwice(fn_out.Rdata.Expire, fn_out.Rdata.Refresh)

\* The inputs of an assemble call in the order assemble processes them:
\* the peers, then self.
Processed(in) == in.peers \o <<in.self>>

\* The peer has a name, and a host name in it: it is not skipped.
Labelled(p) ==
    /\ ~p.isNil
    /\ p.DNSName # <<>>
    /\ IndexDot(CanonicalName(p.DNSName)) > 1

\* The first label of a name.
FirstLabel(name) == SubSeq(name, 1, IndexDot(CanonicalName(name)) - 1)

\* Two spellings of one DNS name: equal but for case and the final dot.
SameName(a, b) == CanonicalName(a) = CanonicalName(b)

\* The name label.zone. of a peer in a zone.
NameIn(p, zone) == CanonicalName(JoinDot(FirstLabel(p.DNSName), zone))

\* The peer carries the tag tg, with or without the prefix tag:.
Carries(p, tg) ==
    /\ ~p.isNil
    /\ ~p.TagsNil
    /\ \E k \in 1..Len(p.Tags) : p.Tags[k] = tg \/ p.Tags[k] = TagPrefix \o tg

\* The names a peer that is not skipped generates: one in the default
\* zone, one in the zone of every mapped tag it carries.
NamesOf(cfg, p) ==
    {NameIn(p, cfg.DefaultZone)}
    \cup {NameIn(p, cfg.Zones[tg]) :
             tg \in {t \in DOMAIN cfg.Zones : Carries(p, t) /\ cfg.Zones[t] # <<>>}}

\* The names ns.<zone>. of the zone set.
NsNames(cfg) == {CanonicalName(JoinDot(<<"n","s">>, z)) : z \in cfg.fastZoneLookup}

\* An input processed after the i-th, or the name-server entry of a zone,
\* generates the name too.
Overwritten(in, cfg, i, name) ==
    \/ \E j \in (i + 1)..Len(Processed(in)) :
          Labelled(Processed(in)[j]) /\ name \in NamesOf(cfg, Processed(in)[j])
    \/ Labelled(in.self) /\ name \in NsNames(cfg)

\* The record of a peer: its canonical name and its addresses by family.
RecordOf(p) ==
    record(CanonicalName(p.DNSName), bucketV4(p.TailscaleIPs), bucketV6(p.TailscaleIPs))

\* The index out has an entry under name that holds the record of p.
EntryFor(out, name, p) ==
    /\ ~out.isNil
    /\ name \in DOMAIN out.m
    /\ out.m[name] = RecordOf(p)

\* C18 as claimed: for every input of assemble, peers and self, with a
\* non-empty name that contains a dot, the index has an entry label.<default
\* zone>. whose record carries the name of that peer (names compared as DNS
\* names).
C18_EveryPeerInDefaultZone ==
    (fn_pc = "returned" /\ fn_in.op = "assemble") =>
        \A i \in 1..Len(Processed(fn_in)) :
            (/\ ~Processed(fn_in)[i].isNil
             /\ Processed(fn_in)[i].DNSName # <<>>
             /\ IndexDot(Processed(fn_in)[i].DNSName) # 0)
            => /\ ~fn_out.isNil
               /\ NameIn(Processed(fn_in)[i], config.DefaultZone) \in DOMAIN fn_out.m
               /\ SameName(fn_out.m[NameIn(Processed(fn_in)[i], config.DefaultZone)].name,
                           Processed(fn_in)[i].DNSName)

\* C18 amended: the same when the default zone is not empty, the name has
\* a first label, and neither an input processed later nor a name-server
\* entry generates the same name.
C18_PeerInDefaultZoneUnlessOverwritten ==
    (fn_pc = "returned" /\ fn_in.op = "assemble") =>
        \A i \in 1..Len(Processed(fn_in)) :
            (/\ Labelled(Processed(fn_in)[i])
             /\ IndexDot(Processed(fn_in)[i].DNSName) # 0
             /\ config.DefaultZone # <<>>
             /\ ~Overwritten(fn_in, config, i,
                             NameIn(Processed(fn_in)[i], config.DefaultZone)))
            => /\ ~fn_out.isNil
               /\ NameIn(Processed(fn_in)[i], config.DefaultZone) \in DOMAIN fn_out.m
               /\ SameName(fn_out.m[NameIn(Processed(fn_in)[i], config.DefaultZone)].name,
                           Processed(fn_in)[i].DNSName)

\* With the default zone C, assemble of D.t., f.t and the self-peer s.t
\* returned an index with d.c., f.c. and s.c. under the names d.t., f.t.
\* and s.t.
C18_Witness ==
    /\ fn_pc = "returned"
    /\ fn_in = [op |-> "assemble", config |-> ConfigRaw, self |-> PeerSelf,
                peers |-> <<PeerD, PeerF>>]
    /\ fn_out.m[<<"d",".","c",".">>].name = <<"d",".","t",".">>
    /\ fn_out.m[<<"f",".","c",".">>].name = <<"f",".","t",".">>
    /\ fn_out.m[<<"s",".","c",".">>].name = <<"s",".","t",".">>

\* C19 as claimed: for every input of assemble that has a label and every
\* tag the config maps to a zone, the index has the entry label.<tag zone>.
\* with the record of the peer when the peer carries the tag, with or
\* without the prefix, and has no such entry for the peer when the peer
\* carries no tag mapped to that zone.
C19_TagZoneEntries ==
    (fn_pc = "returned" /\ fn_in.op = "assemble") =>
        \A i \in 1..Len(Processed(fn_in)) : \A tg \in DOMAIN config.Zones :
            Labelled(Processed(fn_in)[i]) =>
                /\ Carries(Processed(fn_in)[i], tg)
                      => EntryFor(fn_out, NameIn(Processed(fn_in)[i], config.Zones[tg]),
                                  Processed(fn_in)[i])
                /\ (~\E t2 \in DOMAIN config.Zones :
                        /\ config.Zones[t2] = config.Zones[tg]
                        /\ Carries(Processed(fn_in)[i], t2))
                      => ~EntryFor(fn_out, NameIn(Processed(fn_in)[i], config.Zones[tg]),
                                   Processed(fn_in)[i])

\* C19 amended: the entry is there when the default zone and the tag zone
\* are not empty and neither an input processed later nor a name-server
\* entry generates the same name; no such entry is there for a peer
\* without a tag mapped to the zone unless the zone is the default zone as
\* well or the name is a name-server name.
C19_TagZoneEntriesUnlessOverwritten ==
    (fn_pc = "returned" /\ fn_in.op = "assemble") =>
        \A i \in 1..Len(Processed(fn_in)) : \A tg \in DOMAIN config.Zones :
            Labelled(Processed(fn_in)[i]) =>
                /\ (/\ Carries(Processed(fn_in)[i], tg)
                    /\ config.DefaultZone # <<>>
                    /\ config.Zones[tg] # <<>>
                    /\ ~Overwritten(fn_in, config, i,
                                    NameIn(Processed(fn_in)[i], config.Zones[tg])))
                      => EntryFor(fn_out, NameIn(Processed(fn_in)[i], config.Zones[tg]),
                                  Processed(fn_in)[i])
                /\ (/\ ~\E t2 \in DOMAIN config.Zones :
                          /\ config.Zones[t2] = config.Zones[tg]
                          /\ Carries(Processed(fn_in)[i], t2)
                    /\ ~SameName(config.Zones[tg], config.DefaultZone)
                    /\ NameIn(Processed(fn_in)[i], config.Zones[tg]) \notin NsNames(config))
                      => ~EntryFor(fn_out, NameIn(Processed(fn_in)[i], config.Zones[tg]),
                                   Processed(fn_in)[i])

\* With the tag q mapped to d.c., assemble of f.t (tag:q), D.t. (q) and
\* the self-peer without tags returned an index with f.d.c. and d.d.c. and
\* without s.d.c.
C19_Witness ==
    /\ fn_pc = "returned"
    /\ fn_in = [op |-> "assemble", config |-> ConfigFull, self |-> PeerSelf,
                peers |-> <<PeerF, PeerD>>]
    /\ EntryFor(fn_out, <<"f",".","d",".","c",".">>, PeerF)
    /\ EntryFor(fn_out, <<"d",".","d",".","c",".">>, PeerD)
    /\ <<"s",".","d",".","c",".">> \notin DOMAIN fn_out.m

\* A reload stores its result in this step, after a successful fetch.
Published ==
    \/ st_pc = "publish" /\ st_pc' = "done"
    \/ poll_pc = "publish" /\ poll_pc' = "select"

\* C20: after every reload that fetched the status and stored its result,
\* the index maps ns.<zone>., for every zone of the zone set, to the record
\* of the self-peer.
C20_NsEntriesAfterReload ==
    [][Published =>
          \A z \in config.fastZoneLookup :
              EntryFor(ts_hosts', CanonicalName(JoinDot(<<"n","s">>, z)), PeerSelf)]_vars

\* The peer is nil, has no name, or has a name without a dot, which does
\* not split into a label and a zone suffix.
Unusable(p) == p.isNil \/ p.DNSName = <<>> \/ IndexDot(p.DNSName) = 0

\* The inputs of an assemble call with the i-th of them, in the order of
\* processing, replaced by no peer.
Without(in, i) ==
    [in EXCEPT !.peers = [k \in 1..Len(in.peers) |->
                              IF k = i THEN NilPeer ELSE in.peers[k]],
               !.self = IF i = Len(in.peers) + 1 THEN NilPeer ELSE in.self]

\* C21: an input of assemble, peer or self, that is nil, has an empty name
\* or has a name without a dot contributes no entry, no record of the
\* index carries its name, and the index is the one assemble returns for
\* the other inputs alone.
C21_UnusablePeerContributesNothing ==
    (fn_pc = "returned" /\ fn_in.op = "assemble") =>
        \A i \in 1..Len(Processed(fn_in)) :
            Unusable(Processed(fn_in)[i]) =>
                /\ \A k \in DOMAIN fn_out.m :
                      ~Processed(fn_in)[i].isNil
                          => ~SameName(fn_out.m[k].name, Processed(fn_in)[i].DNSName)
                /\ fn_out = assemble(config, Without(fn_in, i).self, Without(fn_in, i).peers)

\* A reload has fetched the status and assembled its index in this step.
Assembled ==
    \/ st_pc = "reload" /\ st_pc' = "publish"
    \/ poll_pc = "reload" /\ poll_pc' = "publish"

\* C22: with an empty default zone, the index a reload assembles is nil,
\* and the step in which that reload returns leaves the stored index and
\* the stored serial as they were.
C22_NilIndexNotPublished ==
    [][config.DefaultZone = <<>> =>
          /\ Assembled => (st_rl'.hosts.isNil /\ poll_rl'.hosts.isNil)
          /\ Published => (ts_hosts' = ts_hosts /\ ts_serial' = ts_serial)]_vars

\* Startup has returned after its reload failed to fetch the status, and
\* nothing has happened since.
StartupFailed ==
    /\ st_pc = "done"
    /\ config.DefaultZone # <<>>
    /\ ~everStored
    /\ ticks = 0
    /\ sd_n = 0

\* A reload of poll has fetched the status, the first fetch to succeed.
FirstFetchSucceeded ==
    /\ poll_pc = "publish"
    /\ config.DefaultZone # <<>>
    /\ ~everStored
    /\ sd_n = 0

OptionsOf(lines, kw) == {i \in 1..Len(lines) : lines[i][1] = kw}

\* The line gives the option kw with a duration ParseDuration accepts.
IsInterval(line, kw) ==
    Len(line) = 2 /\ line[1] = kw /\ ParseDuration(line[2]).ok

\* The line maps a tag to a zone.
IsTagLine(line) == Len(line) = 3 /\ line[1] = KwTag

\* No tag is mapped by two lines.
TagsDistinct(lines) ==
    \A i, j \in OptionsOf(lines, KwTag) : i # j => lines[i][2] # lines[j][2]

\* parse has returned from a directive tailscale <zone> { ... }.
ParsedBlock ==
    /\ fn_pc = "returned"
    /\ fn_in.op = "parse"
    /\ fn_in.head = <<KwTailscale, ZoneC>>
    /\ fn_in.hasBlock

\* C24: a block of tag options, no tag twice, and the option refresh with
\* a duration: with refresh once, parse returns no error and the reload
\* interval of the Config is that duration; with refresh twice, parse
\* returns an error.
C24_RefreshOption ==
    (/\ ParsedBlock
     /\ TagsDistinct(fn_in.lines)
     /\ \A i \in 1..Len(fn_in.lines) :
           IsInterval(fn_in.lines[i], KwRefresh) \/ IsTagLine(fn_in.lines[i]))
    => /\ \A i \in OptionsOf(fn_in.lines, KwRefresh) :
             OptionsOf(fn_in.lines, KwRefresh) = {i}
                 => /\ fn_out.err = ""
                    /\ config.ReloadInterval = ParseDuration(fn_in.lines[i][2]).d
       /\ Cardinality(OptionsOf(fn_in.lines, KwRefresh)) > 1 => fn_out.err # ""

\* The tag->zone pairs the lines of a block list.
ListedZones(lines) ==
    [t \in {lines[i][2] : i \in OptionsOf(lines, KwTag)} |->
        lines[CHOOSE i \in OptionsOf(lines, KwTag) : lines[i][2] = t][3]]

\* The defects of a block: the interval option twice, a tag mapped twice,
\* an option other than the interval option and tag.
Defective(lines) ==
    \/ Cardinality(OptionsOf(lines, KwReload)) > 1
    \/ ~TagsDistinct(lines)
    \/ \E i \in 1..Len(lines) : lines[i][1] \notin {KwReload, KwTag}

\* parse has returned from a directive tailscale <zone>, with or without
\* a block.
ParsedDirective ==
    /\ fn_pc = "returned"
    /\ fn_in.op = "parse"
    /\ fn_in.head = <<KwTailscale, ZoneC>>

\* C25: parse returns an error when the block gives the interval option
\* twice, maps a tag twice or has another option; when it has none of
\* these defects and every option has its arguments, parse returns no
\* error and Zones holds exactly the listed tag->zone pairs.
C25_ParseErrors ==
    ParsedDirective =>
        /\ Defective(fn_in.lines) => fn_out.err # ""
        /\ (/\ ~Defective(fn_in.lines)
            /\ \A i \in 1..Len(fn_in.lines) :
                  IsInterval(fn_in.lines[i], KwReload) \/ IsTagLine(fn_in.lines[i]))
           => /\ fn_out.err = ""
              /\ config.Zones = ListedZones(fn_in.lines)

\* C26: for every directive that names the plugin and gives no default
\* zone, with a block or without, parse returns an error.
C26_NoDefaultZoneIsError ==
    (fn_pc = "returned" /\ fn_in.op = "parse" /\ fn_in.head = <<KwTailscale>>)
        => fn_out.err # ""

\* A reload is under way: its fetch has not returned, or it has assembled
\* its index and not yet stored it.
ReloadInProgress ==
    st_pc \in {"reload", "publish"} \/ poll_pc \in {"reload", "publish"}

\* C27: while a reload is fetching or has assembled and not yet stored,
\* it holds no lock (the lock is free or held by Shutdown), and unless
\* Shutdown holds the lock a ServeDNS call can take its next step, the
\* Ready check or the lookup.
C27_ReloadLocksOnlyForSwap ==
    ReloadInProgress =>
        /\ mu \in {"", "Shutdown"}
        /\ (mu # "Shutdown" /\ q_pc = "idle") => ENABLED ServeDNS
        /\ (mu # "Shutdown" /\ q_pc = "lookup") => ENABLED ServeDNSLookup

\* The engine is ready, a reload of poll has assembled a new index and not
\* yet stored it, and a ServeDNS call is about to look its name up.
C27_Witness ==
    /\ poll_pc = "publish"
    /\ q_pc = "lookup"
    /\ ReadyNow
    /\ sd_n = 0
    /\ poll_rl.hosts # ts_hosts

\* The inputs of an assemble call, by position in the order of
\* processing, that generate the name.
Writers(in, cfg, name) ==
    {i \in 1..Len(Processed(in)) :
        Labelled(Processed(in)[i]) /\ name \in NamesOf(cfg, Processed(in)[i])}

\* The greatest number of a non-empty set of numbers.
Latest(S) == CHOOSE i \in S : \A j \in S : j <= i

\* C28: the index assemble returns has exactly the names its inputs and
\* the name-server entries generate, and under every name the record of
\* the one processed last: the record of the self-peer under ns.<zone>.
\* when the self-peer yields a record, otherwise the record of the last
\* input that generates the name, the peers in the order of the slice and
\* the self-peer after them.
C28_LastWriterWins ==
    (fn_pc = "returned" /\ fn_in.op = "assemble" /\ ~fn_out.isNil) =>
        /\ \A i \in 1..Len(Processed(fn_in)) :
              Labelled(Processed(fn_in)[i])
                  => NamesOf(config, Processed(fn_in)[i]) \subseteq DOMAIN fn_out.m
        /\ \A name \in DOMAIN fn_out.m :
              IF Labelled(fn_in.self) /\ name \in NsNames(config)
              THEN fn_out.m[name] = RecordOf(fn_in.self)
              ELSE /\ Writers(fn_in, config, name) # {}
                   /\ fn_out.m[name] =
                          RecordOf(Processed(fn_in)[Latest(Writers(fn_in, config, name))])

\* assemble of f.t, ns.t., s.u. and f.u. with the self-peer s.t: f.u., the
\* later of the two peers f, holds f.c. and f.d.c.; the self-peer holds
\* s.c., which s.u. generates too; the name-server entry holds ns.c.,
\* which ns.t. generates too.
C28_Witness ==
    /\ fn_pc = "returned"
    /\ fn_in = [op |-> "assemble", config |-> ConfigFull, self |-> PeerSelf,
                peers |-> <<PeerF, PeerNs, PeerS2, PeerF2>>]
    /\ EntryFor(fn_out, <<"f",".","c",".">>, PeerF2)
    /\ EntryFor(fn_out, <<"f",".","d",".","c",".">>, PeerF2)
    /\ EntryFor(fn_out, <<"s",".","c",".">>, PeerSelf)
    /\ EntryFor(fn_out, <<"n","s",".","c",".">>, PeerSelf)

\* C29: a ServeDNS call for the name of a zone apex either hands the
\* request on or writes a response that is not NXDOMAIN and carries no
\* CNAME, A or AAAA record, whatever the index holds.
C29_ApexNeverNXDOMAINNorHost ==
    (q_pc = "done" /\ IsApex(q_req.Name) /\ ~q_resp.next) =>
        /\ q_resp.rcode # RcodeNameError
        /\ q_resp.msg.Rcode # RcodeNameError
        /\ \A rr \in Records(q_resp.msg) : rr.Rrtype \notin {"CNAME", "A", "AAAA"}

\* An A query for the apex d.c., for which the lookup returned the record
\* of the peer D.t. (d.c. in the default zone c.), was answered with
\* success and an empty answer section.
C29_Witness ==
    /\ q_pc = "done"
    /\ q_req = Question(ZoneDC, "A", "IN")
    /\ IsApex(ZoneDC)
    /\ q_lk.hr = RecordOf(PeerD)
    /\ ~q_resp.next
    /\ q_resp.rcode = RcodeSuccess
    /\ q_resp.msg.Answer = <<>>

\* Two indexes have the same keys and, under every key, records with the
\* same canonical name and the same v4 and v6 lists.
SameIndex(a, b) ==
    /\ a.isNil = b.isNil
    /\ DOMAIN a.m = DOMAIN b.m
    /\ \A k \in DOMAIN a.m :
          /\ a.m[k].name = b.m[k].name
          /\ a.m[k].v4 = b.m[k].v4
          /\ a.m[k].v6 = b.m[k].v6

\* C30: a second call of assemble with the config, the self-peer and the
\* peer sequence of the first returns an index with the same keys and,
\* under every key, an equal record, whatever the order in which either
\* call ranges over the zones.
C30_AssembleDeterministic ==
    fn_pc = "again" => SameIndex(fn_prev.first, fn_out)

\* Two calls for f.t and D.t. with the zones c. and d.c., which ranged
\* over the zones in different orders, returned the same index, with both
\* name-server entries.
C30_Witness ==
    /\ fn_pc = "again"
    /\ fn_in = [op |-> "assemble", config |-> ConfigFull, self |-> PeerSelf,
                peers |-> <<PeerF, PeerD>>]
    /\ fn_prev.zones # fn_prev.firstZones
    /\ fn_out = fn_prev.first
    /\ EntryFor(fn_out, <<"n","s",".","c",".">>, PeerSelf)
    /\ EntryFor(fn_out, <<"n","s",".","d",".","c",".">>, PeerSelf)

\* The name ends in a dot and has no upper-case letter.
IsCanonicalKey(k) ==
    /\ k # <<>>
    /\ k[Len(k)] = "."
    /\ \A i \in 1..Len(k) : \A j \in 1..26 : k[i] # UpperChars[j]

\* C31: every key of every index assemble returns ends in a dot and is
\* lower-case, whatever the case and the final dot of the peer names, the
\* default zone and the tag zones.
C31_KeysCanonical ==
    (fn_pc \in {"returned", "again"} /\ fn_in.op = "assemble" /\ ~fn_out.isNil) =>
        \A k \in DOMAIN fn_out.m : IsCanonicalKey(k)

\* With the default zone C and the tag q mapped to D.c, assemble of D.t.,
\* f.t and the self-peer s.t returned an index with exactly the keys d.c.,
\* d.d.c., f.c., f.d.c., s.c., ns.c. and ns.d.c.
C31_Witness ==
    /\ fn_pc = "returned"
    /\ fn_in = [op |-> "assemble", config |-> ConfigRaw, self |-> PeerSelf,
                peers |-> <<PeerD, PeerF>>]
    /\ DOMAIN fn_out.m =
           { <<"d",".","c",".">>, <<"d",".","d",".","c",".">>,
             <<"f",".","c",".">>, <<"f",".","d",".","c",".">>,
             <<"s",".","c",".">>, <<"n","s",".","c",".">>,
             <<"n","s",".","d",".","c",".">> }

\* The keys of the index out whose record carries the name of the peer p.
KeysOf(out, p) ==
    {k \in DOMAIN out.m : out.m[k].name = CanonicalName(p.DNSName)}

\* The zones a peer qualifies for: the default zone, and the zone of every
\* mapped tag it carries.
ZonesOf(cfg, p) ==
    {cfg.DefaultZone}
    \cup {cfg.Zones[tg] : tg \in {t \in DOMAIN cfg.Zones : Carries(p, t) /\ cfg.Zones[t] # <<>>}}

\* C32: in the index one assemble call returns, all entries that carry the
\* name of one input (peer or self-peer, the name-server entries of the
\* self-peer among them) hold one record, that of the input, so they agree
\* on name, v4 list and v6 list; and but for the name-server entries they
\* are entries label.<zone>. of zones the peer qualifies for, at most one
\* for each such zone.
C32_OneRecordPerPeer ==
    (fn_pc \in {"returned", "again"} /\ fn_in.op = "assemble" /\ ~fn_out.isNil) =>
        \A i \in 1..Len(Processed(fn_in)) :
            Labelled(Processed(fn_in)[i]) =>
                /\ \A k \in KeysOf(fn_out, Processed(fn_in)[i]) :
                      fn_out.m[k] = RecordOf(Processed(fn_in)[i])
                /\ KeysOf(fn_out, Processed(fn_in)[i]) \ NsNames(config)
                       \subseteq {NameIn(Processed(fn_in)[i], z) :
                                     z \in ZonesOf(config, Processed(fn_in)[i])}
                /\ Cardinality(KeysOf(fn_out, Processed(fn_in)[i]) \ NsNames(config))
                       <= Cardinality(ZonesOf(config, Processed(fn_in)[i]))

\* assemble of D.t. and f.t with the self-peer ns.t., the tag q mapped to
\* d.c.: the two entries of f.t, f.c. and f.d.c., hold its one record with
\* one v4 and one v6 address; the self-peer has its entry ns.c. and no
\* second entry in the zone c.
C32_Witness ==
    /\ fn_pc = "returned"
    /\ fn_in = [op |-> "assemble", config |-> ConfigFull, self |-> PeerNs,
                peers |-> <<PeerD, PeerF>>]
    /\ KeysOf(fn_out, PeerF) = {<<"f",".","c",".">>, <<"f",".","d",".","c",".">>}
    /\ fn_out.m[<<"f",".","c",".">>] = fn_out.m[<<"f",".","d",".","c",".">>]
    /\ Len(fn_out.m[<<"f",".","c",".">>].v4) = 1
    /\ Len(fn_out.m[<<"f",".","c",".">>].v6) = 1
    /\ KeysOf(fn_out, PeerNs) = {<<"n","s",".","c",".">>, <<"n","s",".","d",".","c",".">>}

\* parse has returned no error: setup goes on with the Config it filled.
ParseAccepted == fn_pc = "returned" /\ fn_in.op = "parse" /\ fn_out.err = ""

\* C33: from the return of a parse without error on, the zone set is the
\* default zone together with the values of the tag->zone map, and no step
\* of Startup, reload, poll, ServeDNS or Shutdown changes any field of the
\* Config, except that Startup may replace a zero reload interval by the
\* default.
C33_ConfigFixedAfterParse ==
    /\ [](ParseAccepted =>
             config.fastZoneLookup = {config.DefaultZone} \cup MapValues(config.Zones))
    /\ [][ParseAccepted =>
             \/ config' = config
             \/ /\ st_pc = "idle" /\ st_pc' = "reload"
                /\ config.ReloadInterval = DurationZero
                /\ config' = [config EXCEPT !.ReloadInterval = defaultReloadInterval]]_vars

\* After the parse of tailscale c. { reload 91.5s; tag q d.c. }: Startup
\* has returned, a tick has reloaded, a query was answered and Shutdown has
\* returned, and the Config is the one parse left behind.
C33_Witness ==
    /\ ParseAccepted
    /\ sd_pc = "returned"
    /\ ticks >= 1
    /\ everStored
    /\ q_pc = "done"
    /\ ~q_resp.next
    /\ config = ConfigFull
    /\ config.fastZoneLookup = {ZoneC, ZoneDC}

\* C34: a reload with a non-empty default zone whose status has a
\* self-peer that is nil, has no name or has a name without a dot stores
\* the index of the peers alone: every name-server name in it is the name
\* of a peer with the label ns and none was inserted for the self-peer;
\* and after that reload the engine is ready.
C34_ReloadWithoutSelfRecord ==
    (/\ fn_pc = "returned"
     /\ fn_in.op = "reload"
     /\ Unusable(fn_in.status.Self)
     /\ config.DefaultZone # <<>>)
    => /\ ts_hosts = records(assemblePeers(config, fn_in.peers, EmptyMap))
       /\ \A name \in NsNames(config) \cap DOMAIN ts_hosts.m :
             \E i \in 1..Len(fn_in.peers) :
                 /\ Labelled(fn_in.peers[i])
                 /\ name \in NamesOf(config, fn_in.peers[i])
       /\ ReadyNow

\* The records of type t of an answer section, in their order.
OfType(rrs, t) ==
    LET HasType(rr) == rr.Rrtype = t IN SelectSeq(rrs, HasType)

\* C35: in the host answer serveCNAME writes for a record, the A and the
\* AAAA records are owned by the name of the record, which is the target
\* of the CNAME; the addresses of the A records are the v4 addresses of the
\* record one for one and in their order, those of the AAAA records its v6
\* addresses; there is no other record but the one CNAME, so a record
\* without addresses gives an answer of the CNAME alone.
C35_AddressRecords ==
    (fn_pc = "returned" /\ fn_in.op = "serveCNAME") =>
        LET ans == fn_out.msg.Answer
        IN  /\ Len(OfType(ans, "CNAME")) = 1
            /\ OfType(ans, "CNAME")[1].Name = fn_in.req.Name
            /\ OfType(ans, "CNAME")[1].Rdata.Target = fn_in.hr.name
            /\ \A i \in 1..Len(ans) :
                  ans[i].Rrtype \in {"A", "AAAA"} => ans[i].Name = fn_in.hr.name
            /\ [i \in 1..Len(OfType(ans, "A")) |-> OfType(ans, "A")[i].Rdata.A]
                   = fn_in.hr.v4
            /\ [i \in 1..Len(OfType(ans, "AAAA")) |-> OfType(ans, "AAAA")[i].Rdata.AAAA]
                   = fn_in.hr.v6
            /\ Len(ans) = 1 + Len(fn_in.hr.v4) + Len(fn_in.hr.v6)
            /\ (fn_in.hr.v4 = <<>> /\ fn_in.hr.v6 = <<>>) => Len(ans) = 1

\* The A query for f.c. with the record of b.t., which has no addresses,
\* was answered with the CNAME from f.c. to b.t. and nothing else.
C35_Witness ==
    /\ fn_pc = "returned"
    /\ fn_in.op = "serveCNAME"
    /\ fn_in.req = Question(<<"f",".","c",".">>, "A", "IN")
    /\ fn_in.hr = record(<<"b",".","t",".">>, <<>>, <<>>)
    /\ Len(fn_out.msg.Answer) = 1
    /\ fn_out.msg.Answer[1].Rrtype = "CNAME"
    /\ fn_out.msg.Answer[1].Name = <<"f",".","c",".">>
    /\ fn_out.msg.Answer[1].Rdata.Target = <<"b",".","t",".">>

\* C36: once a second Shutdown call has begun, after the first has
\* returned and without a Startup in between, it is at its send holding
\* the write lock, in every later state: nothing can receive from ts.done,
\* so it never returns, and no ServeDNS call can take its Ready check or
\* its lookup.
C36_SecondShutdownBlocks ==
    sd_n >= 2 =>
        /\ sd_pc = "send"
        /\ mu = "Shutdown"
        /\ poll_pc = "stopped"
        /\ ~ENABLED PollDone
        /\ ~ENABLED ServeDNS
        /\ ~ENABLED ServeDNSLookup

\* The second Shutdown is at its send, and a ServeDNS call that passed its
\* Ready check before the first Shutdown is waiting for the lock of its
\* lookup.
C36_Witness ==
    /\ sd_n = 2
    /\ sd_pc = "send"
    /\ mu = "Shutdown"
    /\ poll_pc = "stopped"
    /\ q_pc = "lookup"
    /\ ts_hosts = NilRecords

\* C37: a ServeDNS call answers NXDOMAIN only for a name that is absent
\* from the index the last reload published, also when a Shutdown runs
\* between the Ready check of the call and its lookup.
C37_NXDOMAINOnlyForAbsentName ==
    [][(Returns /\ ~q_resp'.next /\ q_resp'.rcode = RcodeNameError)
          => /\ ~lastStored.hosts.isNil
             /\ q_req'.Name \notin DOMAIN lastStored.hosts.m]_vars

\* A reload has published before: the pair stored last is not the pair of
\* the empty store.
PublishedBefore == lastStored # [hosts |-> NilRecords, serial |-> U32Zero]

\* C38: when a reload publishes an index that differs from the index
\* published before it, it publishes a different serial; every serial a
\* reload publishes is non-zero; and after the publication of a non-nil
\* index Ready() is true.
C38_SerialChangesAndNonZero ==
    [][Published =>
          /\ (PublishedBefore /\ ts_hosts' # lastStored.hosts)
                => ts_serial' # lastStored.serial
          /\ U32Positive(ts_serial')
          /\ ~ts_hosts'.isNil => Ready(ts_hosts', ts_serial')]_vars

\* The duration of the last reload option of a block, zero when the block
\* has none.
SpecifiedInterval(lines) ==
    IF OptionsOf(lines, KwReload) = {} THEN DurationZero
    ELSE ParseDuration(lines[Latest(OptionsOf(lines, KwReload))][2]).d

\* C39: for every configuration parse accepts, the reload interval parse
\* leaves is the specified duration, or 5 minutes when none or zero is
\* specified; it is strictly positive from Startup on, so Startup does not
\* fail at the creation of the ticker, and whenever poll runs.
C39_ReloadIntervalPositive ==
    /\ ParseAccepted =>
          config.ReloadInterval =
              IF SpecifiedInterval(fn_in.lines) = DurationZero
              THEN defaultReloadInterval ELSE SpecifiedInterval(fn_in.lines)
    /\ st_pc # "idle" => DurationPositive(config.ReloadInterval)
    /\ poll_pc # "none" => DurationPositive(config.ReloadInterval)
    /\ st_pc # "panic"

\* The addresses of a slice that are valid and of the family fam, in
\* their order and as often as they occur.
OfFamily(addrs, fam) ==
    LET Is(a) == a.fam = fam IN SelectSeq(addrs, Is)

\* How often a occurs in the slice.
Count(addrs, a) == Cardinality({i \in 1..Len(addrs) : addrs[i] = a})

\* C40: the v4 result of bucketAddrs holds the valid IPv4 addresses of the
\* input and the v6 result the valid IPv6 addresses, each as often as in
\* the input and in the order of the input; an invalid address is in
\* neither result and no address is in both.
C40_BucketAddrsPartitions ==
    (fn_pc = "returned" /\ fn_in.op = "bucketAddrs") =>
        /\ fn_out.v4 = OfFamily(fn_in.addrs, "v4")
        /\ fn_out.v6 = OfFamily(fn_in.addrs, "v6")
        /\ \A i \in 1..Len(fn_in.addrs) :
              LET a == fn_in.addrs[i]
              IN  /\ a.fam = "v4" =>
                        /\ Count(fn_out.v4, a) = Count(fn_in.addrs, a)
                        /\ Count(fn_out.v6, a) = 0
                  /\ a.fam = "v6" =>
                        /\ Count(fn_out.v6, a) = Count(fn_in.addrs, a)
                        /\ Count(fn_out.v4, a) = 0
                  /\ a.fam = "invalid" =>
                        /\ Count(fn_out.v4, a) = 0
                        /\ Count(fn_out.v6, a) = 0
        /\ {fn_out.v4[i] : i \in 1..Len(fn_out.v4)}
               \cap {fn_out.v6[i] : i \in 1..Len(fn_out.v6)} = {}
        /\ Len(fn_out.v4) + Len(fn_out.v6) <= Len(fn_in.addrs)

\* bucketAddrs of six addresses, two of them twice and one invalid,
\* returned three v4 and two v6 addresses in the order of the input.
C40_Witness ==
    /\ fn_pc = "returned"
    /\ fn_in.op = "bucketAddrs"
    /\ fn_in.addrs = <<Addr("v6", 4), Addr("v4", 2), Addr("invalid", 0),
                       Addr("v4", 1), Addr("v6", 4), Addr("v4", 2)>>
    /\ fn_out.v4 = <<Addr("v4", 2), Addr("v4", 1), Addr("v4", 2)>>
    /\ fn_out.v6 = <<Addr("v6", 4), Addr("v6", 4)>>

====
